---- MODULE Spec2Model ----
(***************************************************************************)
(* Model of the question-database scripts: compile2.py (category           *)
(* extraction, cleaned-file discovery, merge/compile, report), the two     *)
(* cleaning pipelines src/general_cleaner.py and src/rc_cleaner.py with    *)
(* the command line of scripts/run_general_cleaner.py, the classification  *)
(* script assessment.py, the filter script rc_removed.py and the report    *)
(* scripts/analyze_categories.py.                                          *)
(*                                                                         *)
(* Encoding of Python values:                                              *)
(*   str whose characters matter  -> tuple of one-character strings        *)
(*   other str                    -> TLA+ string                           *)
(*   list                         -> sequence                              *)
(*   dict with string keys        -> function whose DOMAIN is the key set  *)
(*   dict whose order matters     -> [keys |-> <<..>>, val |-> function]   *)
(*   None                         -> PyNone                                *)
(*   a JSON value that is no dict -> NonDict                               *)
(*   file content                 -> [ok |-> json.load succeeds, data]     *)
(***************************************************************************)
EXTENDS Integers, Sequences, FiniteSets, TLC

(* ------------------------------ bounds --------------------------------- *)
\* longest main database (records)
MaxDb == 2
\* most cleaned files present in the directory snapshot
MaxFiles == 2
\* longest requested-category list of a direct extraction call
MaxReq == 2
\* longest main database of a direct extraction call (records)
MaxExtractDb == 3

(* ------------------------------ strings -------------------------------- *)
UpperChars == <<"A", "B", "C", "D", "E", "F", "G", "H", "I", "J", "K", "L", "M", "N", "O", "P", "Q", "R", "S", "T", "U", "V", "W", "X", "Y", "Z">>
LowerChars == <<"a", "b", "c", "d", "e", "f", "g", "h", "i", "j", "k", "l", "m", "n", "o", "p", "q", "r", "s", "t", "u", "v", "w", "x", "y", "z">>

s_empty == << >>
s_rc == <<"r", "c">>
s_RC == <<"R", "C">>
s_verbal_reasoning == <<"v", "e", "r", "b", "a", "l", "_", "r", "e", "a", "s", "o", "n", "i", "n", "g">>
s_spatial_reasoning == <<"s", "p", "a", "t", "i", "a", "l", "_", "r", "e", "a", "s", "o", "n", "i", "n", "g">>
s_Spatial_Reasoning == <<"S", "p", "a", "t", "i", "a", "l", "_", "R", "e", "a", "s", "o", "n", "i", "n", "g">>
s_abstract_reasoning == <<"a", "b", "s", "t", "r", "a", "c", "t", "_", "r", "e", "a", "s", "o", "n", "i", "n", "g">>
s_critical_reasoning == <<"c", "r", "i", "t", "i", "c", "a", "l", "_", "r", "e", "a", "s", "o", "n", "i", "n", "g">>
s_logical_reasoning == <<"l", "o", "g", "i", "c", "a", "l", "_", "r", "e", "a", "s", "o", "n", "i", "n", "g">>
s_numerical_reasoning == <<"n", "u", "m", "e", "r", "i", "c", "a", "l", "_", "r", "e", "a", "s", "o", "n", "i", "n", "g">>
s_all == <<"a", "l", "l">>
s_ALL == <<"A", "L", "L">>
s_ALL_CATEGORIES == <<"A", "L", "L", "_", "C", "A", "T", "E", "G", "O", "R", "I", "E", "S">>
s_EXTRACTED_ == <<"E", "X", "T", "R", "A", "C", "T", "E", "D", "_">>
s_CLEANED_ == <<"C", "L", "E", "A", "N", "E", "D", "_">>
s_QUESTIONS_ == <<"_", "Q", "U", "E", "S", "T", "I", "O", "N", "S", "_">>
s_PROCESSING_LOG_ == <<"_", "P", "R", "O", "C", "E", "S", "S", "I", "N", "G", "_", "L", "O", "G", "_">>
s_dot_json == <<".", "j", "s", "o", "n">>
s_underscore == <<"_">>
s_ALL_CATEGORIES_COMPILED_ == <<"A", "L", "L", "_", "C", "A", "T", "E", "G", "O", "R", "I", "E", "S", "_", "C", "O", "M", "P", "I", "L", "E", "D", "_">>
s_CLEANED_CRITICAL_REASONING_ == <<"C", "L", "E", "A", "N", "E", "D", "_", "C", "R", "I", "T", "I", "C", "A", "L", "_", "R", "E", "A", "S", "O", "N", "I", "N", "G", "_">>
s_CLEANED_LOGICAL_REASONING_ == <<"C", "L", "E", "A", "N", "E", "D", "_", "L", "O", "G", "I", "C", "A", "L", "_", "R", "E", "A", "S", "O", "N", "I", "N", "G", "_">>
s_CLEANED_NUMERICAL_REASONING_ == <<"C", "L", "E", "A", "N", "E", "D", "_", "N", "U", "M", "E", "R", "I", "C", "A", "L", "_", "R", "E", "A", "S", "O", "N", "I", "N", "G", "_">>
s_CLEANED_VERBAL_REASONING_ == <<"C", "L", "E", "A", "N", "E", "D", "_", "V", "E", "R", "B", "A", "L", "_", "R", "E", "A", "S", "O", "N", "I", "N", "G", "_">>
s_CLEANED_RC_ == <<"C", "L", "E", "A", "N", "E", "D", "_", "R", "C", "_">>
s_CLEANED_RC_QUESTIONS_ == <<"C", "L", "E", "A", "N", "E", "D", "_", "R", "C", "_", "Q", "U", "E", "S", "T", "I", "O", "N", "S", "_">>
s_RC_PROCESSING_LOG_ == <<"R", "C", "_", "P", "R", "O", "C", "E", "S", "S", "I", "N", "G", "_", "L", "O", "G", "_">>
s_CLEANED_RC_dot_json == <<"C", "L", "E", "A", "N", "E", "D", "_", "R", "C", ".", "j", "s", "o", "n">>
s_old == <<"o", "l", "d">>
s_unknown == <<"u", "n", "k", "n", "o", "w", "n">>
s_question_ == <<"q", "u", "e", "s", "t", "i", "o", "n", "_">>
\* the character U+0060 of a code-fence marker (the lexer admits none in a string)
BT == "backtick"
s_fence_json == <<BT, BT, BT, "j", "s", "o", "n">>
s_fence == <<BT, BT, BT>>
Digits == <<"0", "1", "2", "3", "4", "5", "6", "7", "8", "9">>

Range(s) == {s[k] : k \in DOMAIN s}

\* one character of str.lower()
LowerChar(c) ==
    IF \E k \in DOMAIN UpperChars : UpperChars[k] = c
    THEN LowerChars[CHOOSE k \in DOMAIN UpperChars : UpperChars[k] = c]
    ELSE c

\* one character of str.upper()
UpperChar(c) ==
    IF \E k \in DOMAIN LowerChars : LowerChars[k] = c
    THEN UpperChars[CHOOSE k \in DOMAIN LowerChars : LowerChars[k] = c]
    ELSE c

\* str.lower()
lower(s) == [k \in DOMAIN s |-> LowerChar(s[k])]

\* str.upper()
upper(s) == [k \in DOMAIN s |-> UpperChar(s[k])]

\* str.startswith(p)
startswith(s, p) == Len(s) >= Len(p) /\ SubSeq(s, 1, Len(p)) = p

\* str.endswith(p)
endswith(s, p) == Len(s) >= Len(p) /\ SubSeq(s, Len(s) - Len(p) + 1, Len(s)) = p

RECURSIVE DecimalDigits(_)
\* str(n) for a natural number
DecimalDigits(n) ==
    IF n < 10 THEN <<Digits[n + 1]>>
    ELSE DecimalDigits(n \div 10) \o <<Digits[(n % 10) + 1]>>

\* f"{n:0w}": the decimal digits of n, padded with zeros to the width w
RECURSIVE ZeroPadded(_, _)
ZeroPadded(n, w) ==
    IF Len(DecimalDigits(n)) >= w THEN DecimalDigits(n)
    ELSE <<"0">> \o ZeroPadded(n, w - 1)

\* the calendar: leap years and the lengths of the months
IsLeap(y) == (y % 4 = 0 /\ y % 100 # 0) \/ y % 400 = 0
DaysInYear(y) == IF IsLeap(y) THEN 366 ELSE 365
DaysInMonth(y, m) ==
    IF m = 2 THEN (IF IsLeap(y) THEN 29 ELSE 28)
    ELSE IF m \in {4, 6, 9, 11} THEN 30 ELSE 31

RECURSIVE YearOfDay(_, _)
\* the year and the day of the year (from 0) that lie d days after 1 January of y
YearOfDay(y, d) ==
    IF d < DaysInYear(y) THEN [year |-> y, day |-> d]
    ELSE YearOfDay(y + 1, d - DaysInYear(y))

RECURSIVE MonthOfDay(_, _, _)
\* the month and the day of the month of the day d (from 0) counted from the
\* first of month m of the year y
MonthOfDay(y, m, d) ==
    IF d < DaysInMonth(y, m) THEN [month |-> m, day |-> d + 1]
    ELSE MonthOfDay(y, m + 1, d - DaysInMonth(y, m))

\* datetime.now().strftime("%Y%m%d_%H%M%S"); the clock counts the seconds
\* from 2025-01-01 00:00:00
strftime(t) ==
    LET yd == YearOfDay(2025, t \div 86400)
        md == MonthOfDay(yd.year, 1, yd.day)
        s == t % 86400
    IN  ZeroPadded(yd.year, 4) \o ZeroPadded(md.month, 2) \o ZeroPadded(md.day, 2)
        \o <<"_">>
        \o ZeroPadded(s \div 3600, 2) \o ZeroPadded((s % 3600) \div 60, 2)
        \o ZeroPadded(s % 60, 2)

\* datetime.now().isoformat() of a clock reading on a whole second (the
\* clock counts whole seconds, so the text has no fraction)
isoformat(t) ==
    LET yd == YearOfDay(2025, t \div 86400)
        md == MonthOfDay(yd.year, 1, yd.day)
        s == t % 86400
    IN  ZeroPadded(yd.year, 4) \o <<"-">> \o ZeroPadded(md.month, 2) \o <<"-">>
        \o ZeroPadded(md.day, 2) \o <<"T">>
        \o ZeroPadded(s \div 3600, 2) \o <<":">> \o ZeroPadded((s % 3600) \div 60, 2)
        \o <<":">> \o ZeroPadded(s % 60, 2)

(* ------------------------------ values --------------------------------- *)
PyNone == [py |-> "None"]
\* a JSON value that is not an object (a number, here)
NonDict == [nondict |-> 5]
IsDict(x) == "nondict" \notin DOMAIN x
\* dict.get(k, default)
Get(d, k, default) == IF k \in DOMAIN d THEN d[k] ELSE default

\* an insertion-ordered dict
EmptyDict == [keys |-> << >>, val |-> << >>]
DictHas(d, k) == k \in Range(d.keys)
DictGet(d, k, default) == IF DictHas(d, k) THEN d.val[k] ELSE default
\* d[k] = v
DictSet(d, k, v) ==
    IF DictHas(d, k)
    THEN [keys |-> d.keys, val |-> [x \in Range(d.keys) |-> IF x = k THEN v ELSE d.val[x]]]
    ELSE [keys |-> Append(d.keys, k),
          val |-> [x \in Range(d.keys) \cup {k} |-> IF x = k THEN v ELSE d.val[x]]]

RECURSIVE SumSeq(_)
SumSeq(s) == IF s = << >> THEN 0 ELSE Head(s) + SumSeq(Tail(s))

\* file contents
Unreadable == [ok |-> FALSE, data |-> << >>]
JsonFile(data) == [ok |-> TRUE, data |-> data]


(* ------------------------------ records -------------------------------- *)
Oid(x) == ("$oid" :> x)

\* a reading-comprehension record with every optional field
q1 == ("_id" :> Oid(<<"o", "1">>)) @@ ("question" :> "Q1") @@ ("options" :> <<"A", "B">>)
      @@ ("answer" :> "A") @@ ("answer_explanation" :> "E1") @@ ("category" :> s_RC)
      @@ ("difficulty" :> "hard") @@ ("user_response" :> "B")
      @@ ("passage" :> "P1") @@ ("passage_id" :> "pid1")
\* a record without difficulty, user_response, passage
q2 == ("_id" :> Oid(<<"o", "2">>)) @@ ("question" :> "Q2") @@ ("options" :> <<"C", "D">>)
      @@ ("answer" :> "D") @@ ("category" :> s_verbal_reasoning)
\* a record without _id, its category in mixed case
q3 == ("question" :> "Q3") @@ ("category" :> s_Spatial_Reasoning) @@ ("difficulty" :> "easy")
\* a record without category
q4 == ("_id" :> Oid(<<"o", "4">>)) @@ ("question" :> "Q4") @@ ("passage" :> "P4")
\* a second reading-comprehension record, its category in lower case
q5 == ("_id" :> Oid(<<"o", "5">>)) @@ ("question" :> "Q5") @@ ("category" :> s_rc)
      @@ ("passage" :> "P5")

DbRecords == {q1, q2, q3, q4}

RECURSIVE SeqsUpTo(_, _)
\* the sequences over S of length at most n
SeqsUpTo(S, n) ==
    IF n = 0 THEN {<< >>}
    ELSE LET shorter == SeqsUpTo(S, n - 1)
         IN  shorter \cup {Append(s, x) : s \in {t \in shorter : Len(t) = n - 1}, x \in S}

\* a JSON array with an element that is no object, after and before a record
BadRecordDatabases == {JsonFile(<<q1, NonDict>>), JsonFile(<<NonDict, q2>>)}

\* the main database file: a JSON array of records, a file json.load fails on,
\* or an array with an element that is no object
Databases == {JsonFile(d) : d \in SeqsUpTo(DbRecords, MaxDb)} \cup {Unreadable}
                 \cup BadRecordDatabases

\* the main database of a direct call of the extraction: longer, and with two
\* different records of one category
ExtractDatabases ==
    {JsonFile(d) : d \in SeqsUpTo(DbRecords \cup {q5}, MaxExtractDb)} \cup {Unreadable}
        \cup BadRecordDatabases

\* q.get raises on an element that is no object
HasNonDict(data) == \E k \in DOMAIN data : ~IsDict(data[k])

\* records of the cleaned per-category files
c_nocat == ("_id" :> Oid(<<"c", "1">>)) @@ ("question" :> "CQ1")
c_cat == ("_id" :> Oid(<<"c", "2">>)) @@ ("question" :> "CQ2") @@ ("category" :> s_verbal_reasoning)

\* a cleaned reading-comprehension record that kept its category as the
\* database writes it
c_RC == ("_id" :> Oid(<<"c", "3">>)) @@ ("question" :> "CQ3") @@ ("category" :> s_RC)

\* a cleaned file: unreadable, a good array, an array with an element that is no object
CleanedContents == {Unreadable, JsonFile(<<c_nocat, c_cat, c_RC>>),
                    JsonFile(<<c_nocat, NonDict>>)}

\* names a cleaned file of the snapshot may have; the last matches no pattern
CleanedNames == {s_CLEANED_RC_QUESTIONS_ \o s_old \o s_dot_json,
                 s_CLEANED_RC_ \o s_dot_json,
                 s_CLEANED_VERBAL_REASONING_ \o s_old \o s_dot_json,
                 s_CLEANED_RC_dot_json}

\* the directory snapshots: at most MaxFiles files
Directories ==
    UNION {[S -> CleanedContents] : S \in {T \in SUBSET CleanedNames : Cardinality(T) <= MaxFiles}}

\* the requested-category lists of a direct call of the extraction
RequestNames == {s_rc, s_RC, s_spatial_reasoning, s_abstract_reasoning}
Requests == SeqsUpTo(RequestNames, MaxReq)

(* ------------------------------ state ---------------------------------- *)
VARIABLES
    caller,                 \* the entry point that runs
    pc,                     \* its position
    now,                    \* the clock
    main_db,                \* content of the main database file
    dir,                    \* the working directory: name -> content
    categories_to_extract,  \* argument of extract_categories_from_main_db
    extracted_categories,   \* its return value
    cleaned_files,          \* return value of find_cleaned_files
    cf_idx,                 \* position of the loop over cleaned_files
    all_questions,          \* the compiled collection
    category_stats,         \* per-category counts
    total_questions,        \* the report's total
    mismatch,               \* the report took the mismatch branch
    output_file,            \* return value of compile_all_categories
    breakdown,              \* the report's per-category lines
    target_category,        \* the category argument of a general cleaning pass
    questions,              \* the records selected for the pass
    i,                      \* how many of them the loop has handled
    response,               \* the reply of the latest external call
    result,                 \* what clean_and_verify_question returned for it
    cleaned_questions,      \* the cleaned output
    failed_questions,       \* the failed-list
    processing_log,         \* the cleaner instance's processing log
    pass_result,            \* return value of the pass
    call_log,               \* the clock readings at which the external service was called
    argv,                   \* sys.argv of run_general_cleaner.py
    usage,                  \* the script printed its usage text
    raw_data,               \* content of interview_questions.json
    results,                \* the classified questions of assessment.py
    idx,                    \* how many questions its loop has handled
    filtered,               \* the records rc_removed.py keeps
    removed,                \* the number it reports as removed
    error,                  \* the exception that ended rc_removed.py, if any
    passes,                 \* the passes called on the cleaner instance so far
    category_counts         \* return value of analyze_categories

compileVars == <<categories_to_extract, extracted_categories, cleaned_files, cf_idx,
                 all_questions, category_stats, total_questions, mismatch, output_file,
                 breakdown>>
cleanVars == <<target_category, questions, i, response, result, cleaned_questions,
               failed_questions, processing_log, pass_result>>
cliVars == <<argv, usage>>
assessVars == <<raw_data, results, idx>>
removeVars == <<filtered, removed, error>>
analyzeVars == <<category_counts>>
otherVars == <<cliVars, assessVars, removeVars, passes, analyzeVars>>
vars == <<caller, pc, now, main_db, dir, compileVars, cleanVars, call_log, otherVars>>

\* the cleaner has not run
NoResponse == [raised |-> FALSE, content |-> << >>]
NoPassResult == [status |-> "pending"]
CleanerIdle ==
    /\ target_category = s_empty
    /\ questions = << >>
    /\ i = 0
    /\ response = NoResponse
    /\ result = PyNone
    /\ cleaned_questions = << >>
    /\ failed_questions = << >>
    /\ processing_log = << >>
    /\ pass_result = NoPassResult

\* the scripts that have not run
CliIdle == argv = << >> /\ usage = FALSE
AssessIdle == raw_data = Unreadable /\ results = << >> /\ idx = 0
RemoveIdle == filtered = << >> /\ removed = 0 /\ error = "none"
AnalyzeIdle == category_counts = PyNone

\* open(name, 'w') + json.dump(data)
WriteFile(d, name, data) ==
    [n \in DOMAIN d \cup {name} |-> IF n = name THEN JsonFile(data) ELSE d[n]]

(* ------------------------------ compile2.py ---------------------------- *)
\* a variant of the comparison that forgets lower()
CategoryMatchesExact(q, category) == Get(q, "category", s_empty) = category

\* q.get('category', '').lower() == category.lower()
CategoryMatches(q, category) == lower(Get(q, "category", s_empty)) = lower(category)

\* [q for q in all_data if ...]
FilterByCategory(all_data, category) ==
    SelectSeq(all_data, LAMBDA q : CategoryMatches(q, category))

\* f"EXTRACTED_{category.upper()}_{timestamp}.json"
ExtractedFileName(category, t) ==
    s_EXTRACTED_ \o upper(category) \o s_underscore \o strftime(t) \o s_dot_json

RECURSIVE ExtractLoop(_, _, _, _, _)
\* the loop over categories_to_extract, from position k
ExtractLoop(all_data, cats, k, t, acc) ==
    IF k > Len(cats) THEN acc
    ELSE LET category == cats[k]
             category_questions == FilterByCategory(all_data, category)
         IN  ExtractLoop(all_data, cats, k + 1, t,
                 [extracted |-> DictSet(acc.extracted, category, category_questions),
                  dir |-> WriteFile(acc.dir, ExtractedFileName(category, t), category_questions)])

\* a variant that falls back to the two standard categories on an empty request
extract_with_default_request(db, cats, t, d) ==
    IF ~db.ok \/ HasNonDict(db.data) THEN [extracted |-> EmptyDict, dir |-> d]
    ELSE ExtractLoop(db.data,
             IF cats = << >> THEN <<s_spatial_reasoning, s_abstract_reasoning>> ELSE cats,
             1, t, [extracted |-> EmptyDict, dir |-> d])

\* a variant that treats a database it cannot load as an empty one
extract_from_empty_on_failure(db, cats, t, d) ==
    ExtractLoop(IF db.ok /\ ~HasNonDict(db.data) THEN db.data ELSE << >>, cats, 1, t,
                [extracted |-> EmptyDict, dir |-> d])

\* extract_categories_from_main_db: the mapping returned and the directory
\* left. The try (lines 15-46) covers the load and the loop: when json.load
\* raises, or q.get raises in the filter of the first requested category (an
\* element that is no object), the function returns {} and has written nothing
extract_categories_from_main_db(db, cats, t, d) ==
    IF ~db.ok THEN [extracted |-> EmptyDict, dir |-> d]
    ELSE IF cats # << >> /\ HasNonDict(db.data) THEN [extracted |-> EmptyDict, dir |-> d]
    ELSE ExtractLoop(db.data, cats, 1, t, [extracted |-> EmptyDict, dir |-> d])

\* the glob patterns, split at the *
file_patterns ==
    << [category |-> s_critical_reasoning, pre |-> s_CLEANED_CRITICAL_REASONING_, suf |-> s_dot_json],
       [category |-> s_logical_reasoning, pre |-> s_CLEANED_LOGICAL_REASONING_, suf |-> s_dot_json],
       [category |-> s_numerical_reasoning, pre |-> s_CLEANED_NUMERICAL_REASONING_, suf |-> s_dot_json],
       [category |-> s_verbal_reasoning, pre |-> s_CLEANED_VERBAL_REASONING_, suf |-> s_dot_json],
       [category |-> s_rc, pre |-> s_CLEANED_RC_, suf |-> s_dot_json] >>

\* a variant whose patterns lack the separator before the *
glob_without_separator(names, pat) ==
    {n \in names : /\ Len(n) >= Len(pat.pre) - 1 + Len(pat.suf)
                   /\ startswith(n, SubSeq(pat.pre, 1, Len(pat.pre) - 1))
                   /\ endswith(n, pat.suf)}

\* glob.glob(pattern) on the names of the directory
glob(names, pat) ==
    {n \in names : /\ Len(n) >= Len(pat.pre) + Len(pat.suf)
                   /\ startswith(n, pat.pre)
                   /\ endswith(n, pat.suf)}

RECURSIVE FindLoop(_, _, _)
\* the loop over file_patterns from position k; the order glob lists matches
\* in is not fixed, so matches[0] is any match
FindLoop(names, k, found) ==
    IF k > Len(file_patterns) THEN {found}
    ELSE LET matches == glob(names, file_patterns[k])
         IN  IF matches # {}
             THEN UNION {FindLoop(names, k + 1, DictSet(found, file_patterns[k].category, m)) :
                         m \in matches}
             ELSE FindLoop(names, k + 1, found)

\* find_cleaned_files: the mappings it may return
find_cleaned_files(names) == FindLoop(names, 1, EmptyDict)


\* the value a function returns: nothing yet, None, or a path
NotReturned == [ret |-> "pending", path |-> << >>]
ReturnNone == [ret |-> "None", path |-> << >>]
ReturnPath(n) == [ret |-> "path", path |-> n]

RECURSIVE ExtendFromExtractedNoStats(_, _, _)
\* a variant of the first loop that forgets to record the count
ExtendFromExtractedNoStats(extracted, k, acc) ==
    IF k > Len(extracted.keys) THEN acc
    ELSE ExtendFromExtractedNoStats(extracted, k + 1,
             [all_questions |-> acc.all_questions \o extracted.val[extracted.keys[k]],
              category_stats |-> acc.category_stats])

RECURSIVE ExtendFromExtracted(_, _, _)
\* lines 103-106, from position k: extend all_questions, record the count
ExtendFromExtracted(extracted, k, acc) ==
    IF k > Len(extracted.keys) THEN acc
    ELSE LET category == extracted.keys[k]
             qs == extracted.val[category]
         IN  ExtendFromExtracted(extracted, k + 1,
                 [all_questions |-> acc.all_questions \o qs,
                  category_stats |-> DictSet(acc.category_stats, category, Len(qs))])

\* a variant that leaves the records of the file as they are
EnsureCategoryNever(question, category) == question

\* a variant that sets the category of every record of the file
EnsureCategoryOverwrite(question, category) ==
    [f \in DOMAIN question \cup {"category"} |->
        IF f = "category" THEN category ELSE question[f]]

\* lines 115-117: the record with its category field ensured
EnsureCategory(question, category) ==
    IF "category" \notin DOMAIN question
    THEN [f \in DOMAIN question \cup {"category"} |->
             IF f = "category" THEN category ELSE question[f]]
    ELSE question

\* lines 111-117: the records a cleaned file contributes; ok is FALSE when
\* json.load or the loop over the records raises
LoadCleanedFile(content, category) ==
    IF ~content.ok \/ (\E k \in DOMAIN content.data : ~IsDict(content.data[k]))
    THEN [ok |-> FALSE, questions |-> << >>]
    ELSE [ok |-> TRUE,
          questions |-> [k \in DOMAIN content.data |-> EnsureCategory(content.data[k], category)]]

\* a variant of the report's order that leaves rc out
category_order_without_rc ==
    <<s_critical_reasoning, s_logical_reasoning, s_numerical_reasoning,
      s_verbal_reasoning, s_spatial_reasoning, s_abstract_reasoning>>

\* lines 149-152
category_order ==
    <<s_critical_reasoning, s_logical_reasoning, s_numerical_reasoning,
      s_verbal_reasoning, s_rc, s_spatial_reasoning, s_abstract_reasoning>>

\* lines 155-158: the printed lines, count = category_stats.get(category, 0)
ReportLines(stats) ==
    [k \in DOMAIN category_order |->
        [category |-> category_order[k], count |-> DictGet(stats, category_order[k], 0)]]

\* lines 154-159: the total over category_order
ReportTotal(stats) ==
    SumSeq([k \in DOMAIN category_order |-> ReportLines(stats)[k].count])

\* f"ALL_CATEGORIES_COMPILED_{timestamp}.json"
CompiledFileName(t) == s_ALL_CATEGORIES_COMPILED_ \o strftime(t) \o s_dot_json

\* a direct call of extract_categories_from_main_db (lines 11-46)
DirectExtract ==
    /\ caller = "extract_categories_from_main_db"
    /\ pc = "start"
    /\ LET r == extract_categories_from_main_db(main_db, categories_to_extract, now, dir)
       IN  /\ extracted_categories' = r.extracted
           /\ dir' = r.dir
    /\ pc' = "done"
    /\ UNCHANGED <<otherVars, call_log, caller, now, main_db, categories_to_extract, cleaned_files, cf_idx,
                   all_questions, category_stats, total_questions, mismatch, output_file,
                   breakdown, cleanVars>>

\* compile_all_categories, step 1 (lines 82-87)
CompileExtract ==
    /\ caller = "compile_all_categories"
    /\ pc = "start"
    /\ categories_to_extract' = <<s_spatial_reasoning, s_abstract_reasoning>>
    /\ LET r == extract_categories_from_main_db(main_db, categories_to_extract', now, dir)
       IN  /\ extracted_categories' = r.extracted
           /\ dir' = r.dir
           /\ IF r.extracted.keys = << >>
              THEN pc' = "done" /\ output_file' = ReturnNone
              ELSE pc' = "find" /\ output_file' = output_file
    /\ UNCHANGED <<otherVars, call_log, caller, now, main_db, cleaned_files, cf_idx,
                   all_questions, category_stats, total_questions, mismatch, breakdown,
                   cleanVars>>

\* step 2 (line 93)
FindCleanedFiles ==
    /\ pc = "find"
    /\ \E found \in find_cleaned_files(DOMAIN dir) : cleaned_files' = found
    /\ pc' = "add_extracted"
    /\ UNCHANGED <<otherVars, call_log, caller, now, main_db, dir, categories_to_extract, extracted_categories,
                   cf_idx, all_questions, category_stats, total_questions, mismatch,
                   output_file, breakdown, cleanVars>>

\* step 3, first loop (lines 99-106)
AddExtracted ==
    /\ pc = "add_extracted"
    /\ LET r == ExtendFromExtracted(extracted_categories, 1,
                    [all_questions |-> << >>, category_stats |-> EmptyDict])
       IN  /\ all_questions' = r.all_questions
           /\ category_stats' = r.category_stats
    /\ cf_idx' = 1
    /\ pc' = "add_cleaned"
    /\ UNCHANGED <<otherVars, call_log, caller, now, main_db, dir, categories_to_extract, extracted_categories,
                   cleaned_files, total_questions, mismatch, output_file, breakdown,
                   cleanVars>>

\* a variant of the second loop with the try around the whole loop: the first
\* failing file ends the loop
AddCleanedFileAborting(all_q, stats, files, pos, d) ==
    LET category == files.keys[pos]
        loaded == LoadCleanedFile(d[files.val[category]], category)
    IN  IF loaded.ok
        THEN [all_questions |-> all_q \o loaded.questions,
              category_stats |-> DictSet(stats, category, Len(loaded.questions)),
              cf_idx |-> pos + 1]
        ELSE [all_questions |-> all_q,
              category_stats |-> DictSet(stats, category, 0),
              cf_idx |-> Len(files.keys) + 1]

\* a variant that puts the records of a file in front of the collection
AddCleanedFilePrepending(all_q, stats, files, pos, d) ==
    LET category == files.keys[pos]
        loaded == LoadCleanedFile(d[files.val[category]], category)
    IN  IF loaded.ok
        THEN [all_questions |-> loaded.questions \o all_q,
              category_stats |-> DictSet(stats, category, Len(loaded.questions)),
              cf_idx |-> pos + 1]
        ELSE [all_questions |-> all_q,
              category_stats |-> DictSet(stats, category, 0),
              cf_idx |-> pos + 1]

\* one iteration of the second loop (lines 109-125): try the file, extend and
\* count on success, count 0 on an exception, go on with the next file
AddCleanedFile(all_q, stats, files, pos, d) ==
    LET category == files.keys[pos]
        file_path == files.val[category]
        loaded == LoadCleanedFile(d[file_path], category)
    IN  IF loaded.ok
        THEN [all_questions |-> all_q \o loaded.questions,
              category_stats |-> DictSet(stats, category, Len(loaded.questions)),
              cf_idx |-> pos + 1]
        ELSE [all_questions |-> all_q,
              category_stats |-> DictSet(stats, category, 0),
              cf_idx |-> pos + 1]

\* step 3, one iteration of the second loop (lines 109-125)
AddCleaned ==
    /\ pc = "add_cleaned"
    /\ cf_idx <= Len(cleaned_files.keys)
    /\ LET r == AddCleanedFile(all_questions, category_stats, cleaned_files, cf_idx, dir)
       IN  /\ all_questions' = r.all_questions
           /\ category_stats' = r.category_stats
           /\ cf_idx' = r.cf_idx
    /\ UNCHANGED <<otherVars, call_log, caller, pc, now, main_db, dir, categories_to_extract, extracted_categories,
                   cleaned_files, total_questions, mismatch, output_file, breakdown,
                   cleanVars>>

\* step 4 (lines 131-138): the compiled file is written
SaveCompiled ==
    /\ pc = "add_cleaned"
    /\ cf_idx > Len(cleaned_files.keys)
    /\ dir' = WriteFile(dir, CompiledFileName(now), all_questions)
    /\ pc' = "report"
    /\ UNCHANGED <<otherVars, call_log, caller, now, main_db, compileVars, cleanVars>>

\* the report and the return (lines 148-168)
Report ==
    /\ pc = "report"
    /\ breakdown' = ReportLines(category_stats)
    /\ total_questions' = ReportTotal(category_stats)
    /\ mismatch' = (total_questions' # Len(all_questions))
    /\ output_file' = ReturnPath(CompiledFileName(now))
    /\ pc' = "done"
    /\ UNCHANGED <<otherVars, call_log, caller, now, main_db, dir, categories_to_extract, extracted_categories,
                   cleaned_files, cf_idx, all_questions, category_stats, cleanVars>>

(* ------------------- general_cleaner.py, rc_cleaner.py ------------------ *)
\* the JSON documents a reply may carry; in a reply's content the name of a
\* document stands for its text
cq_good == ("question" :> "Q cleaned") @@ ("options" :> <<"A", "B", "C", "D">>)
           @@ ("answer" :> "A") @@ ("answer_explanation" :> "because")
           @@ ("passage" :> "P cleaned")
\* a cleaned_question that also carries the fields the reply may not alter
cq_override == ("_id" :> Oid(<<"x">>)) @@ ("category" :> s_critical_reasoning)
               @@ ("difficulty" :> "insane") @@ ("user_response" :> "Z")
               @@ ("passage_id" :> "pidX") @@ ("passage" :> "PX") @@ ("answer" :> "B")
JsonDocs ==
    ("doc_good" :> (("cleaned_question" :> cq_good)
                    @@ ("changes_made" :> [question_modified |-> TRUE])
                    @@ ("issues_found" :> <<"typo">>) @@ ("cleaning_summary" :> "fixed")))
    @@ ("doc_override" :> ("cleaned_question" :> cq_override))
    @@ ("doc_no_cq" :> ("changes_made" :> [question_modified |-> FALSE]))
    @@ ("doc_nondict" :> NonDict)
    @@ ("doc_cq_bad" :> ("cleaned_question" :> NonDict))
    \* replies to the classification prompt of assessment.py
    @@ ("doc_ethics" :> (("category" :> "ethics") @@ ("question" :> "Q ethics")))
    @@ ("doc_hr" :> (("category" :> "hr") @@ ("question" :> "Q hr")))
    @@ ("doc_Ethics" :> (("category" :> "Ethics") @@ ("question" :> "Q Ethics")))
    @@ ("doc_no_question" :> ("category" :> "work_style"))
    @@ ("doc_no_category" :> ("question" :> "Q"))

\* what the external call does: raise (timeout, API error), or return a content
Raised == [raised |-> TRUE, content |-> << >>]
Content(c) == [raised |-> FALSE, content |-> c]
\* " ```json\n<doc>\n```\n"
FencedJson(doc) == <<" ">> \o s_fence_json \o <<"\n", doc, "\n">> \o s_fence \o <<"\n">>
\* "```\n<doc>\n```"
FencedPlain(doc) == s_fence \o <<"\n", doc, "\n">> \o s_fence
Replies ==
    {Raised, Content(<<"o", "o", "p", "s">>),
     Content(<<"doc_good">>), Content(FencedJson("doc_good")), Content(FencedPlain("doc_good")),
     Content(<<"doc_override">>), Content(<<"doc_no_cq">>), Content(<<"doc_nondict">>),
     Content(<<"doc_cq_bad">>)}

Whitespace == {" ", "\n"}
RECURSIVE lstrip(_)
lstrip(s) == IF s # << >> /\ Head(s) \in Whitespace THEN lstrip(Tail(s)) ELSE s
RECURSIVE rstrip(_)
rstrip(s) ==
    IF s # << >> /\ s[Len(s)] \in Whitespace THEN rstrip(SubSeq(s, 1, Len(s) - 1)) ELSE s
\* str.strip()
strip(s) == rstrip(lstrip(s))

\* general_cleaner.py lines 117-125, rc_cleaner.py lines 99-107
RemoveMarkdown(content) ==
    LET c0 == strip(content)
        c1 == IF startswith(c0, s_fence_json) THEN SubSeq(c0, 7 + 1, Len(c0)) ELSE c0
        c2 == IF endswith(c1, s_fence) THEN SubSeq(c1, 1, Len(c1) - 3) ELSE c1
    IN  strip(c2)

\* json.loads: the text of exactly one document, whitespace around it or not,
\* parses; anything else raises
\* JSONDecodeError
json_loads(text) ==
    LET t == strip(text)
    IN  IF Len(t) = 1 /\ t[1] \in DOMAIN JsonDocs
        THEN [ok |-> TRUE, value |-> JsonDocs[t[1]]]
        ELSE [ok |-> FALSE, value |-> PyNone]

EmptyObj == << >>
\* the general pass runs, called directly or by scripts/run_general_cleaner.py
IsGeneral == caller \in {"process_questions_by_category", "run_general_cleaner"}
IsRC == caller = "process_all_rc_questions"

\* question_data.get('_id', {}).get('$oid', default)
QuestionId(question_data, default) == Get(Get(question_data, "_id", EmptyObj), "$oid", default)

\* a variant that lets the reply's fields override the original's
ReconstructGeneralOverlay(question_data, cq) ==
    [f \in DOMAIN cq \cup {"_id", "category", "difficulty", "user_response"} |->
        IF f \in DOMAIN cq THEN cq[f]
        ELSE IF f = "_id" THEN Get(question_data, "_id", PyNone)
        ELSE IF f = "category" THEN Get(question_data, "category", s_empty)
        ELSE IF f = "difficulty" THEN Get(question_data, "difficulty", "medium")
        ELSE Get(question_data, "user_response", "")]

\* general_cleaner.py lines 136-153
ReconstructGeneral(question_data, cq) ==
    LET base == ("_id" :> Get(question_data, "_id", PyNone))
                @@ ("question" :> Get(cq, "question", ""))
                @@ ("options" :> Get(cq, "options", << >>))
                @@ ("answer" :> Get(cq, "answer", ""))
                @@ ("answer_explanation" :> Get(cq, "answer_explanation", ""))
                @@ ("category" :> Get(question_data, "category", s_empty))
                @@ ("difficulty" :> Get(question_data, "difficulty", "medium"))
                @@ ("user_response" :> Get(question_data, "user_response", ""))
        with_pid == IF "passage_id" \in DOMAIN question_data
                    THEN ("passage_id" :> question_data["passage_id"]) @@ base ELSE base
    IN  IF "passage" \in DOMAIN question_data
        THEN ("passage" :> question_data["passage"]) @@ with_pid ELSE with_pid

\* a variant that reads passage_id from the reply like the other cleaned fields
ReconstructRCPassageIdFromReply(question_data, cq) ==
    ("_id" :> Get(question_data, "_id", PyNone))
    @@ ("passage_id" :> Get(cq, "passage_id", ""))
    @@ ("passage" :> Get(cq, "passage", ""))
    @@ ("question" :> Get(cq, "question", ""))
    @@ ("options" :> Get(cq, "options", << >>))
    @@ ("answer" :> Get(cq, "answer", ""))
    @@ ("answer_explanation" :> Get(cq, "answer_explanation", ""))
    @@ ("category" :> Get(question_data, "category", s_rc))
    @@ ("difficulty" :> Get(question_data, "difficulty", "medium"))
    @@ ("user_response" :> Get(question_data, "user_response", ""))

\* rc_cleaner.py lines 118-129
ReconstructRC(question_data, cq) ==
    ("_id" :> Get(question_data, "_id", PyNone))
    @@ ("passage_id" :> Get(question_data, "passage_id", ""))
    @@ ("passage" :> Get(cq, "passage", ""))
    @@ ("question" :> Get(cq, "question", ""))
    @@ ("options" :> Get(cq, "options", << >>))
    @@ ("answer" :> Get(cq, "answer", ""))
    @@ ("answer_explanation" :> Get(cq, "answer_explanation", ""))
    @@ ("category" :> Get(question_data, "category", s_rc))
    @@ ("difficulty" :> Get(question_data, "difficulty", "medium"))
    @@ ("user_response" :> Get(question_data, "user_response", ""))

\* the log entry of a processed reply (general 158-165, rc 134-140)
SuccessEntry(general, question_id, category, t, r) ==
    LET e == ("question_id" :> question_id) @@ ("timestamp" :> isoformat(t))
             @@ ("changes_made" :> Get(r, "changes_made", EmptyObj))
             @@ ("issues_found" :> Get(r, "issues_found", << >>))
             @@ ("cleaning_summary" :> Get(r, "cleaning_summary", ""))
    IN  IF general THEN ("category" :> category) @@ e ELSE e

\* the log entry of an exception (general 175-181, rc 150-155)
ErrorEntry(general, question_id, category, t, what) ==
    LET e == ("question_id" :> question_id) @@ ("timestamp" :> isoformat(t))
             @@ ("error" :> what) @@ ("status" :> "failed")
    IN  IF general THEN ("category" :> category) @@ e ELSE e

\* clean_and_verify_question (general 40-183, rc 33-157) on the reply of the
\* external call: what it returns and what it appends to the processing log
clean_and_verify_question(general, question_data, reply, t) ==
    LET question_id == QuestionId(question_data, s_unknown)
        category == Get(question_data, "category", s_unknown)
        failed(what) == [result |-> PyNone,
                         log |-> <<ErrorEntry(general, question_id, category, t, what)>>]
    IN  IF reply.raised THEN failed("external call raised")
        ELSE LET parsed == json_loads(RemoveMarkdown(reply.content))
             IN  IF ~parsed.ok THEN [result |-> PyNone, log |-> << >>]
                 ELSE LET r == parsed.value
                      IN  IF ~IsDict(r) THEN failed("reply is no object")
                          ELSE IF "cleaned_question" \in DOMAIN r
                          THEN IF ~IsDict(r["cleaned_question"])
                               THEN failed("cleaned_question is no object")
                               ELSE LET full == IF general
                                                THEN ReconstructGeneral(question_data, r["cleaned_question"])
                                                ELSE ReconstructRC(question_data, r["cleaned_question"])
                                        r2 == [r EXCEPT !["cleaned_question"] = full]
                                    IN  [result |-> r2,
                                         log |-> <<SuccessEntry(general, question_id, category, t, r2)>>]
                          ELSE [result |-> r,
                                log |-> <<SuccessEntry(general, question_id, category, t, r)>>]

\* the truth value of a dict or None
Truthy(x) == DOMAIN x # {} /\ x # PyNone

\* a variant that tests only `if result:`
CollectIfResult(cleaned, failed, res, question_id) ==
    IF Truthy(res)
    THEN [cleaned |-> Append(cleaned, Get(res, "cleaned_question", PyNone)), failed |-> failed]
    ELSE [cleaned |-> cleaned, failed |-> Append(failed, question_id)]

\* a variant that lists no failed record
CollectDroppingFailed(cleaned, failed, res, question_id) ==
    IF Truthy(res) /\ Truthy(Get(res, "cleaned_question", PyNone))
    THEN [cleaned |-> Append(cleaned, res["cleaned_question"]), failed |-> failed]
    ELSE [cleaned |-> cleaned, failed |-> failed]

\* general 207-210, rc 181-184
Collect(cleaned, failed, res, question_id) ==
    IF Truthy(res) /\ Truthy(Get(res, "cleaned_question", PyNone))
    THEN [cleaned |-> Append(cleaned, res["cleaned_question"]), failed |-> failed]
    ELSE [cleaned |-> cleaned, failed |-> Append(failed, question_id)]

excluded_categories == {s_rc, s_spatial_reasoning, s_abstract_reasoning}

\* a variant of the filter that compares the categories as written
load_and_filter_questions_exact(db, category) ==
    IF ~db.ok \/ HasNonDict(db.data) THEN << >>
    ELSE IF lower(category) = s_all
    THEN SelectSeq(db.data, LAMBDA q : Get(q, "category", s_empty) \notin excluded_categories)
    ELSE SelectSeq(db.data, LAMBDA q : Get(q, "category", s_empty) = category)

\* general_cleaner.py lines 17-38: the try covers the load and the filter, so
\* an element q.get raises on gives [] as a file that does not load does
load_and_filter_questions(db, category) ==
    IF ~db.ok \/ HasNonDict(db.data) THEN << >>
    ELSE IF lower(category) = s_all
    THEN SelectSeq(db.data,
             LAMBDA q : lower(Get(q, "category", s_empty)) \notin excluded_categories)
    ELSE SelectSeq(db.data,
             LAMBDA q : lower(Get(q, "category", s_empty)) = lower(category))

\* rc_cleaner.py lines 17-31: the try covers the load and the filter
load_and_filter_rc_questions(db) ==
    IF ~db.ok \/ HasNonDict(db.data) THEN << >>
    ELSE SelectSeq(db.data, LAMBDA q : lower(Get(q, "category", s_empty)) = s_rc)

\* time.sleep(1) / time.sleep(2)
GeneralDelay == 1
RCDelay == 2

\* lines 221, 224, 229 (general); 197, 202 (rc)
CategoryName(category) == IF category # s_all THEN upper(category) ELSE s_ALL_CATEGORIES
CleanedOutputName(general, category, t) ==
    IF general
    THEN s_CLEANED_ \o CategoryName(category) \o s_QUESTIONS_ \o strftime(t) \o s_dot_json
    ELSE s_CLEANED_RC_QUESTIONS_ \o strftime(t) \o s_dot_json
LogFileName(general, category, t) ==
    IF general
    THEN CategoryName(category) \o s_PROCESSING_LOG_ \o strftime(t) \o s_dot_json
    ELSE s_RC_PROCESSING_LOG_ \o strftime(t) \o s_dot_json

\* the pass loads and selects its records (general 189-197, rc 163-171)
LoadAndFilter ==
    /\ pc = "start"
    /\ IsGeneral \/ IsRC
    /\ questions' = IF IsGeneral THEN load_and_filter_questions(main_db, target_category)
                    ELSE load_and_filter_rc_questions(main_db)
    /\ IF questions' = << >>
       THEN pc' = "done" /\ pass_result' = [status |-> "error"]
       ELSE pc' = "loop" /\ pass_result' = pass_result
    /\ UNCHANGED <<otherVars, call_log, caller, now, main_db, dir, compileVars, target_category, i, response,
                   result, cleaned_questions, failed_questions, processing_log>>

\* one record: the external call, clean_and_verify_question on its reply, and
\* the record lands in the cleaned output or the failed-list (general 199-210,
\* rc 173-184)
CleanAndVerify ==
    /\ pc = "loop"
    /\ i < Len(questions)
    /\ \E reply \in Replies :
          LET question == questions[i + 1]
              question_id == QuestionId(question, s_question_ \o DecimalDigits(i + 1))
              r == clean_and_verify_question(IsGeneral, question, reply, now)
              c == Collect(cleaned_questions, failed_questions, r.result, question_id)
          IN  /\ response' = reply
              /\ result' = r.result
              /\ processing_log' = processing_log \o r.log
              /\ cleaned_questions' = c.cleaned
              /\ failed_questions' = c.failed
    /\ call_log' = Append(call_log, now)
    /\ i' = i + 1
    /\ pc' = "sleep"
    /\ UNCHANGED <<otherVars, caller, now, main_db, dir, compileVars, target_category, questions,
                   pass_result>>

\* a variant of the delay that also checkpoints the cleaned output
SleepAndCheckpoint ==
    /\ pc = "sleep"
    /\ now' = now + (IF IsGeneral THEN GeneralDelay ELSE RCDelay)
    /\ pc' = IF i < Len(questions) THEN "loop" ELSE "save"
    /\ dir' = WriteFile(dir, CleanedOutputName(IsGeneral, target_category, now),
                        cleaned_questions)
    /\ UNCHANGED <<otherVars, call_log, caller, main_db, compileVars, cleanVars>>

\* the rate-limiting delay (general 213, rc 187), then the loop goes on or ends
Sleep ==
    /\ pc = "sleep"
    /\ now' = now + (IF IsGeneral THEN GeneralDelay ELSE RCDelay)
    /\ pc' = IF i < Len(questions) THEN "loop" ELSE "save"
    /\ UNCHANGED <<otherVars, call_log, caller, main_db, dir, compileVars, cleanVars>>

\* the cleaned output is written (general 220-226, rc 194-199)
SaveCleaned ==
    /\ pc = "save"
    /\ dir' = WriteFile(dir, CleanedOutputName(IsGeneral, target_category, now),
                        cleaned_questions)
    /\ pc' = "save_log"
    /\ UNCHANGED <<otherVars, call_log, caller, now, main_db, compileVars, cleanVars>>

\* the log is written and the pass returns (general 229-241, rc 202-213)
SaveLog ==
    /\ pc = "save_log"
    /\ dir' = WriteFile(dir, LogFileName(IsGeneral, target_category, now), processing_log)
    /\ pass_result' =
           LET r == [status |-> "ok",
                     output_file |-> CleanedOutputName(IsGeneral, target_category, now),
                     log_file |-> LogFileName(IsGeneral, target_category, now),
                     total_processed |-> Len(questions),
                     successfully_cleaned |-> Len(cleaned_questions),
                     failed |-> Len(failed_questions),
                     failed_questions |-> failed_questions]
           IN  IF IsGeneral THEN ("category" :> target_category) @@ r ELSE r
    /\ pc' = "done"
    /\ UNCHANGED <<otherVars, call_log, caller, now, main_db, compileVars, target_category, questions, i,
                   response, result, cleaned_questions, failed_questions, processing_log>>

\* the category arguments of a general pass
Targets == {s_all, s_ALL, s_rc, s_verbal_reasoning}

(* -------------------- scripts/run_general_cleaner.py ------------------- *)
\* most command-line arguments after the script name
MaxArgs == 2

s_quantitative_reasoning ==
    <<"q", "u", "a", "n", "t", "i", "t", "a", "t", "i", "v", "e", "_", "r", "e", "a", "s",
      "o", "n", "i", "n", "g">>
s_general_knowledge ==
    <<"g", "e", "n", "e", "r", "a", "l", "_", "k", "n", "o", "w", "l", "e", "d", "g", "e">>
s_analytical_reasoning ==
    <<"a", "n", "a", "l", "y", "t", "i", "c", "a", "l", "_", "r", "e", "a", "s", "o", "n",
      "i", "n", "g">>
s_Verbal_Reasoning ==
    <<"V", "e", "r", "b", "a", "l", "_", "R", "e", "a", "s", "o", "n", "i", "n", "g">>

\* a variant of the list that offers rc as well
available_categories_with_rc ==
    {s_critical_reasoning, s_verbal_reasoning, s_numerical_reasoning, s_logical_reasoning,
     s_quantitative_reasoning, s_general_knowledge, s_analytical_reasoning, s_rc}

\* lines 38-46
available_categories ==
    {s_critical_reasoning, s_verbal_reasoning, s_numerical_reasoning, s_logical_reasoning,
     s_quantitative_reasoning, s_general_knowledge, s_analytical_reasoning}

\* sys.argv: the script name and the arguments
CliArgs == {s_all, s_ALL, s_RC, s_spatial_reasoning, s_Verbal_Reasoning, s_old}
CliArgvs == {<<"scripts/run_general_cleaner.py">> \o a : a \in SeqsUpTo(CliArgs, MaxArgs)}

\* lines 49-61: the argument is accepted
ArgumentAccepted(av) ==
    /\ Len(av) = 2
    /\ lower(av[2]) \in available_categories \/ lower(av[2]) = s_all

\* main (lines 31-113) up to the call of process_questions_by_category: usage
\* on a bad command line, an error when Config.validate raises, otherwise the
\* pass starts with the lower-cased argument
Main ==
    /\ caller = "run_general_cleaner"
    /\ pc = "main"
    /\ IF ~ArgumentAccepted(argv)
       THEN usage' = TRUE /\ pc' = "done" /\ target_category' = target_category
       ELSE /\ usage' = usage
            /\ \E valid \in BOOLEAN :
                  IF valid
                  THEN pc' = "start" /\ target_category' = lower(argv[2])
                  ELSE pc' = "done" /\ target_category' = target_category
    /\ UNCHANGED <<caller, now, main_db, dir, compileVars, questions, i, response, result,
                   cleaned_questions, failed_questions, processing_log, pass_result,
                   call_log, argv, assessVars, removeVars, passes, analyzeVars>>

InitClean ==
    /\ caller \in {"process_questions_by_category", "process_all_rc_questions",
                   "run_general_cleaner"}
    /\ pc = (IF caller = "run_general_cleaner" THEN "main" ELSE "start")
    /\ now = 0
    /\ main_db \in Databases
    /\ dir = << >>
    /\ categories_to_extract = << >>
    /\ extracted_categories = EmptyDict
    /\ cleaned_files = EmptyDict
    /\ cf_idx = 0
    /\ all_questions = << >>
    /\ category_stats = EmptyDict
    /\ total_questions = 0
    /\ mismatch = FALSE
    /\ output_file = NotReturned
    /\ breakdown = << >>
    /\ target_category \in (IF caller = "process_questions_by_category" THEN Targets
                            ELSE IF IsRC THEN {s_rc} ELSE {s_empty})
    /\ questions = << >>
    /\ i = 0
    /\ response = NoResponse
    /\ result = PyNone
    /\ cleaned_questions = << >>
    /\ failed_questions = << >>
    /\ processing_log = << >>
    /\ pass_result = NoPassResult
    /\ call_log = << >>
    /\ argv \in (IF caller = "run_general_cleaner" THEN CliArgvs ELSE {<< >>})
    /\ usage = FALSE
    /\ AssessIdle /\ RemoveIdle /\ AnalyzeIdle
    /\ passes = 1

NextClean ==
    \/ Main
    \/ LoadAndFilter
    \/ CleanAndVerify
    \/ Sleep
    \/ SaveCleaned
    \/ SaveLog

SpecClean == InitClean /\ [][NextClean]_vars

(* ---------------- several passes on one cleaner instance --------------- *)
\* most passes called on one instance
MaxPasses == 2

\* the database of these runs: one reading-comprehension record, one general
PassDatabases == {JsonFile(<<q1, q2>>)}

\* a variant of the further call on an instance whose log starts empty again
CallAgainOnFreshLog ==
    /\ caller \in {"process_questions_by_category", "process_all_rc_questions"}
    /\ pc = "done"
    /\ passes < MaxPasses
    /\ passes' = passes + 1
    /\ target_category' \in (IF IsGeneral THEN Targets ELSE {s_rc})
    /\ questions' = << >> /\ i' = 0
    /\ response' = NoResponse /\ result' = PyNone
    /\ cleaned_questions' = << >> /\ failed_questions' = << >>
    /\ processing_log' = << >>
    /\ pass_result' = NoPassResult
    /\ pc' = "start"
    /\ UNCHANGED <<caller, now, main_db, dir, compileVars, call_log, cliVars, assessVars,
                   removeVars, analyzeVars>>

\* a further call of process_questions_by_category / process_all_rc_questions
\* on the same instance (general 185-197, rc 159-171): the locals of the pass
\* start afresh, self.processing_log is the instance's (set only in __init__,
\* general 15, rc 15) and the files of the earlier passes are still there
CallAgain ==
    /\ caller \in {"process_questions_by_category", "process_all_rc_questions"}
    /\ pc = "done"
    /\ passes < MaxPasses
    /\ passes' = passes + 1
    /\ target_category' \in (IF IsGeneral THEN Targets ELSE {s_rc})
    /\ questions' = << >> /\ i' = 0
    /\ response' = NoResponse /\ result' = PyNone
    /\ cleaned_questions' = << >> /\ failed_questions' = << >>
    /\ pass_result' = NoPassResult
    /\ pc' = "start"
    /\ UNCHANGED <<caller, now, main_db, dir, compileVars, processing_log, call_log,
                   cliVars, assessVars, removeVars, analyzeVars>>

InitPasses ==
    /\ InitClean
    /\ caller \in {"process_questions_by_category", "process_all_rc_questions"}
    /\ main_db \in PassDatabases

NextPasses ==
    \/ LoadAndFilter
    \/ CleanAndVerify
    \/ Sleep
    \/ SaveCleaned
    \/ SaveLog
    \/ CallAgain

SpecPasses == InitPasses /\ [][NextPasses]_vars

(* ------------------------------ rc_removed.py -------------------------- *)
s_ALL_CATEGORIES_NO_RC_json ==
    <<"A", "L", "L", "_", "C", "A", "T", "E", "G", "O", "R", "I", "E", "S", "_", "N", "O",
      "_", "R", "C", ".", "j", "s", "o", "n">>

\* line 4: the name of the file the script opens
s_ALL_CATEGORIES_COMPILED_20250715_205425_json ==
    <<"A", "L", "L", "_", "C", "A", "T", "E", "G", "O", "R", "I", "E", "S", "_", "C", "O",
      "M", "P", "I", "L", "E", "D", "_", "2", "0", "2", "5", "0", "7", "1", "5", "_", "2",
      "0", "5", "4", "2", "5", ".", "j", "s", "o", "n">>

\* line 8: item['category'] != 'rc'
KeepsItem(item) == item["category"] # s_rc

\* line 8 raises on this item: TypeError on an element that is no object,
\* KeyError on a record without category
ItemRaises(item) == ~IsDict(item) \/ "category" \notin DOMAIN item

\* lines 4-8: the exception that ends the script before it writes, "none"
\* when it gets to line 11
RemoveError(d) ==
    LET name == s_ALL_CATEGORIES_COMPILED_20250715_205425_json
    IN  IF name \notin DOMAIN d THEN "FileNotFoundError"
        ELSE IF ~d[name].ok THEN "JSONDecodeError"
        ELSE LET data == d[name].data
                 bad == {n \in DOMAIN data : ItemRaises(data[n])}
             IN  IF bad = {} THEN "none"
                 ELSE LET first == CHOOSE n \in bad : \A m \in bad : n <= m
                      IN  IF ~IsDict(data[first]) THEN "TypeError" ELSE "KeyError"

\* rc_removed.py run in the directory of a finished compile. It opens the file
\* of the fixed name, whatever the compile has written: the script ends on an
\* exception when that file is not there or does not load, or when line 8
\* raises on an item; otherwise the kept records are written and the
\* difference of the lengths is printed
RemoveRC ==
    /\ caller = "compile_all_categories"
    /\ pc = "done"
    /\ error' = RemoveError(dir)
    /\ IF error' # "none"
       THEN pc' = "crashed" /\ UNCHANGED <<dir, filtered, removed>>
       ELSE LET data == dir[s_ALL_CATEGORIES_COMPILED_20250715_205425_json].data
            IN  /\ filtered' = SelectSeq(data, KeepsItem)
                /\ dir' = WriteFile(dir, s_ALL_CATEGORIES_NO_RC_json, filtered')
                /\ removed' = Len(data) - Len(filtered')
                /\ pc' = "removed"
    /\ UNCHANGED <<caller, now, main_db, compileVars, cleanVars, call_log, cliVars,
                   assessVars, passes, analyzeVars>>

\* the clock readings a compile starts at: midnight of 2025-01-01, and
\* 2025-07-15 20:54:25, the time in the name of the file rc_removed.py opens
CompileClocks == {0, 16923265}

InitCompile ==
    /\ caller \in {"compile_all_categories", "extract_categories_from_main_db"}
    /\ pc = "start"
    /\ now \in (IF caller = "compile_all_categories" THEN CompileClocks ELSE {0})
    /\ main_db \in (IF caller = "compile_all_categories" THEN Databases ELSE ExtractDatabases)
    /\ dir \in (IF caller = "compile_all_categories" THEN Directories ELSE {<< >>})
    /\ categories_to_extract \in
           (IF caller = "compile_all_categories" THEN {<< >>} ELSE Requests)
    /\ extracted_categories = EmptyDict
    /\ cleaned_files = EmptyDict
    /\ cf_idx = 0
    /\ all_questions = << >>
    /\ category_stats = EmptyDict
    /\ total_questions = 0
    /\ mismatch = FALSE
    /\ output_file = NotReturned
    /\ breakdown = << >>
    /\ CleanerIdle
    /\ call_log = << >>
    /\ CliIdle /\ AssessIdle /\ RemoveIdle /\ AnalyzeIdle
    /\ passes = 0

NextCompile ==
    \/ DirectExtract
    \/ CompileExtract
    \/ FindCleanedFiles
    \/ AddExtracted
    \/ AddCleaned
    \/ SaveCompiled
    \/ Report
    \/ RemoveRC

SpecCompile == InitCompile /\ [][NextCompile]_vars


(* ------------------------------ assessment.py -------------------------- *)
\* longest interview_questions.json (groups)
MaxGroups == 2

s_categorized_questions_json ==
    <<"c", "a", "t", "e", "g", "o", "r", "i", "z", "e", "d", "_", "q", "u", "e", "s", "t",
      "i", "o", "n", "s", ".", "j", "s", "o", "n">>

\* line 13
CATEGORIES == <<"culture_fit", "work_style", "ethics", "comprehensive">>

\* groups of interview_questions.json
g0 == [questions |-> << >>]
g1 == [questions |-> <<<<" ", "W", "h", "y", "?", "\n">>>>]
g2 == [questions |-> <<<<"H", "o", "w", "?">>, <<"W", "h", "o", "?", " ">>>>]
InterviewFiles == {JsonFile(d) : d \in SeqsUpTo({g0, g1, g2}, MaxGroups)} \cup {Unreadable}

\* line 40: [q.strip() for group in raw_data for q in group["questions"]]
RECURSIVE FlattenQuestions(_)
FlattenQuestions(groups) ==
    IF groups = << >> THEN << >>
    ELSE [k \in DOMAIN Head(groups).questions |-> strip(Head(groups).questions[k])]
         \o FlattenQuestions(Tail(groups))

\* the replies of the classification call
AssessReplies ==
    {Raised, Content(<<"o", "o", "p", "s">>), Content(<<"doc_ethics", "\n">>),
     Content(FencedJson("doc_ethics")), Content(<<"doc_hr">>), Content(<<"doc_Ethics">>),
     Content(<<"doc_no_question">>), Content(<<"doc_no_category">>), Content(<<"doc_nondict">>)}

\* str(ObjectId()): a fresh identifier, named here after the position n of
\* the record that gets it
NewObjectId(n) == <<"i", "d">> \o DecimalDigits(n)

\* a variant that keeps the category the reply carries
ValidateCategoryKeep(category) == category

\* lines 60-63
ValidateCategory(category) ==
    IF category \notin Range(CATEGORIES) THEN "comprehensive" ELSE category

\* the body of the try (lines 47-69) on the reply of the call: the record it
\* appends, or the exception that leaves results as they are
ClassifyOne(reply, res) ==
    IF reply.raised THEN [ok |-> FALSE, results |-> res]
    ELSE LET parsed == json_loads(strip(reply.content))
         IN  IF ~parsed.ok \/ ~IsDict(parsed.value)
                \/ "category" \notin DOMAIN parsed.value
                \/ "question" \notin DOMAIN parsed.value
             THEN [ok |-> FALSE, results |-> res]
             ELSE [ok |-> TRUE,
                   results |-> Append(res,
                       [id |-> NewObjectId(Len(res) + 1),
                        question |-> parsed.value["question"],
                        category |-> ValidateCategory(parsed.value["category"])])]

\* time.sleep(1.1), in tenths of a second: the clock of this script counts
\* tenths
AssessDelayTenths == 11

IsAssess == caller = "assessment"

\* lines 37-40
LoadInterview ==
    /\ IsAssess /\ pc = "start"
    /\ IF raw_data.ok
       THEN all_questions' = FlattenQuestions(raw_data.data) /\ pc' = "classify"
       ELSE all_questions' = all_questions /\ pc' = "crashed"
    /\ UNCHANGED <<caller, now, main_db, dir, categories_to_extract, extracted_categories,
                   cleaned_files, cf_idx, category_stats, total_questions, mismatch,
                   output_file, breakdown, cleanVars, call_log, otherVars>>

\* one question: the external call and the body of the try (lines 45-76); the
\* delay of line 73 is reached only when nothing raised
Classify ==
    /\ IsAssess /\ pc = "classify"
    /\ idx < Len(all_questions)
    /\ \E reply \in AssessReplies :
          LET r == ClassifyOne(reply, results)
          IN  /\ response' = reply
              /\ results' = r.results
              /\ pc' = IF r.ok THEN "delay" ELSE "classify"
    /\ call_log' = Append(call_log, now)
    /\ idx' = idx + 1
    /\ UNCHANGED <<caller, now, main_db, dir, compileVars, target_category, questions, i,
                   result, cleaned_questions, failed_questions, processing_log, pass_result,
                   cliVars, raw_data, removeVars, passes, analyzeVars>>

\* line 73
AssessSleep ==
    /\ IsAssess /\ pc = "delay"
    /\ now' = now + AssessDelayTenths
    /\ pc' = "classify"
    /\ UNCHANGED <<caller, main_db, dir, compileVars, cleanVars, call_log, otherVars>>

\* lines 79-80
SaveResults ==
    /\ IsAssess /\ pc = "classify"
    /\ idx = Len(all_questions)
    /\ dir' = WriteFile(dir, s_categorized_questions_json, results)
    /\ pc' = "done"
    /\ UNCHANGED <<caller, now, main_db, compileVars, cleanVars, call_log, otherVars>>

InitAssess ==
    /\ caller = "assessment"
    /\ pc = "start"
    /\ now = 0
    /\ main_db = Unreadable
    /\ dir = << >>
    /\ categories_to_extract = << >>
    /\ extracted_categories = EmptyDict
    /\ cleaned_files = EmptyDict
    /\ cf_idx = 0
    /\ all_questions = << >>
    /\ category_stats = EmptyDict
    /\ total_questions = 0
    /\ mismatch = FALSE
    /\ output_file = NotReturned
    /\ breakdown = << >>
    /\ CleanerIdle
    /\ call_log = << >>
    /\ CliIdle /\ RemoveIdle /\ AnalyzeIdle
    /\ passes = 0
    /\ raw_data \in InterviewFiles
    /\ results = << >>
    /\ idx = 0

NextAssess ==
    \/ LoadInterview
    \/ Classify
    \/ AssessSleep
    \/ SaveResults

SpecAssess == InitAssess /\ [][NextAssess]_vars

(* -------------------- scripts/analyze_categories.py -------------------- *)
s_category_analysis_json ==
    <<"c", "a", "t", "e", "g", "o", "r", "y", "_", "a", "n", "a", "l", "y", "s", "i", "s",
      ".", "j", "s", "o", "n">>
s_NO_CATEGORY == <<"N", "O", "_", "C", "A", "T", "E", "G", "O", "R", "Y">>

RECURSIVE CountCategories(_, _, _)
\* lines 25-31: Counter of question.get('category', 'NO_CATEGORY') over the
\* records from position k, its keys in the order of their first occurrence
CountCategories(data, k, counts) ==
    IF k > Len(data) THEN counts
    ELSE LET category == Get(data[k], "category", s_NO_CATEGORY)
         IN  CountCategories(data, k + 1,
                 DictSet(counts, category, DictGet(counts, category, 0) + 1))

\* analyze_categories (lines 11-112): the counts per category as written, None
\* when the file does not load or question.get raises on an element that is
\* no object
analyze_categories(db) ==
    IF ~db.ok \/ HasNonDict(db.data) THEN PyNone
    ELSE CountCategories(db.data, 1, EmptyDict)

\* Counter and None in a condition: an empty Counter is false
HasCounts(counts) == counts # PyNone /\ counts.keys # << >>

\* main (lines 114-141): a database that is missing is reported, otherwise it
\* is analysed, and counts that are not empty are written to
\* category_analysis.json in the working directory
AnalyzeCategories ==
    /\ caller = "analyze_categories"
    /\ pc = "start"
    /\ category_counts' = analyze_categories(main_db)
    /\ dir' = IF HasCounts(category_counts')
              THEN WriteFile(dir, s_category_analysis_json, category_counts')
              ELSE dir
    /\ pc' = "done"
    /\ UNCHANGED <<caller, now, main_db, compileVars, cleanVars, call_log, cliVars,
                   assessVars, removeVars, passes>>

\* the directories the analysis starts in: at most one file
AnalyzeDirectories == {d \in Directories : Cardinality(DOMAIN d) <= 1}

InitAnalyze ==
    /\ caller = "analyze_categories"
    /\ pc = "start"
    /\ now = 0
    /\ main_db \in Databases
    /\ dir \in AnalyzeDirectories
    /\ categories_to_extract = << >>
    /\ extracted_categories = EmptyDict
    /\ cleaned_files = EmptyDict
    /\ cf_idx = 0
    /\ all_questions = << >>
    /\ category_stats = EmptyDict
    /\ total_questions = 0
    /\ mismatch = FALSE
    /\ output_file = NotReturned
    /\ breakdown = << >>
    /\ CleanerIdle
    /\ call_log = << >>
    /\ CliIdle /\ AssessIdle /\ RemoveIdle /\ AnalyzeIdle
    /\ passes = 0

NextAnalyze == AnalyzeCategories

SpecAnalyze == InitAnalyze /\ [][NextAnalyze]_vars

(* ------------------------------ all scripts ---------------------------- *)
Init == InitCompile \/ InitClean \/ InitAssess \/ InitAnalyze

Next == NextCompile \/ NextClean \/ NextAssess \/ NextAnalyze

Spec == Init /\ [][Next]_vars


(* ------------------------------ properties ----------------------------- *)
\* two texts equal up to the case of their letters
SameIgnoringCase(a, b) ==
    /\ Len(a) = Len(b)
    /\ \A k \in DOMAIN a :
          \/ a[k] = b[k]
          \/ \E j \in DOMAIN UpperChars : {a[k], b[k]} = {UpperChars[j], LowerChars[j]}

\* the j-th smallest element of a set of positions
KthIndex(M, j) == CHOOSE k \in M : Cardinality({m \in M : m <= k}) = j

\* res lists exactly the elements of src at the positions M, in their order
IsSelection(res, src, M) ==
    /\ Len(res) = Cardinality(M)
    /\ \A j \in DOMAIN res : res[j] = src[KthIndex(M, j)]

CompileCallers == {"compile_all_categories", "extract_categories_from_main_db"}

\* a source collection: a file that loads as an array of records (objects)
IsCollection(db) == db.ok /\ \A k \in DOMAIN db.data : IsDict(db.data[k])

\* C1: once the extraction has run on a source collection, every requested
\* category C maps to exactly the records whose category equals C up to case,
\* in their original order (the empty sequence when none does).
C1_ExtractionExact ==
    (caller \in CompileCallers /\ pc # "start" /\ IsCollection(main_db)) =>
        \A k \in DOMAIN categories_to_extract :
            LET C == categories_to_extract[k]
                M == {n \in DOMAIN main_db.data :
                         /\ "category" \in DOMAIN main_db.data[n]
                         /\ SameIgnoringCase(main_db.data[n]["category"], C)}
            IN  /\ DictHas(extracted_categories, C)
                /\ IsSelection(extracted_categories.val[C], main_db.data, M)

\* C1 witness: a direct extraction on a database of three records returned,
\* for a requested category, the first and the third record, two different
\* records in the order of the database, the first with its category written
\* in another case, leaving out the record between them; and the empty
\* sequence for another requested category.
C1_Witness ==
    /\ caller = "extract_categories_from_main_db" /\ pc = "done" /\ IsCollection(main_db)
    /\ Len(main_db.data) = 3
    /\ \E C \in Range(categories_to_extract) :
          LET res == extracted_categories.val[C]
          IN  /\ Len(res) = 2
              /\ res[1] # res[2]
              /\ res[1] = main_db.data[1] /\ res[2] = main_db.data[3]
              /\ res[1]["category"] # C
    /\ \E C \in Range(categories_to_extract) : extracted_categories.val[C] = << >>

\* the sum of the counts recorded in category_stats
StatsSum(stats) == SumSeq([k \in DOMAIN stats.keys |-> stats.val[stats.keys[k]]])

\* the compile ran to its report
Compiled == caller = "compile_all_categories" /\ pc \in {"report", "done"}
                /\ output_file.ret # "None"

\* the content of the file discovered for the k-th discovered category
DiscoveredContent(k) == dir[cleaned_files.val[cleaned_files.keys[k]]]

\* C4: after the compile, when json.load fails on no discovered file, the
\* counts recorded per category sum to the length of the compiled collection.
C4_CountsSumToLength ==
    (Compiled /\ \A k \in DOMAIN cleaned_files.keys : DiscoveredContent(k).ok) =>
        StatsSum(category_stats) = Len(all_questions)

\* C4 witness: a finished compile, every discovered file loadable, with records
\* from the extraction and from a discovered file.
C4_Witness ==
    /\ Compiled /\ pc = "done"
    /\ cleaned_files.keys # << >>
    /\ \A k \in DOMAIN cleaned_files.keys : DiscoveredContent(k).ok
    /\ \E C \in Range(extracted_categories.keys) : category_stats.val[C] > 0
    /\ \E C \in Range(cleaned_files.keys) : category_stats.val[C] > 0

\* json.load or the tagging loop raises on this file
FileFails(content) == ~content.ok \/ \E k \in DOMAIN content.data : ~IsDict(content.data[k])

\* C6: after the merge, a discovered category whose file failed has count 0,
\* every other discovered category has all its records counted, and the
\* compiled collection holds the extracted records plus the records of the
\* files that did not fail, and nothing else.
C6_FailedFileIsolated ==
    Compiled =>
        /\ \A k \in DOMAIN cleaned_files.keys :
              LET c == cleaned_files.keys[k]
              IN  /\ DictHas(category_stats, c)
                  /\ category_stats.val[c] =
                         IF FileFails(DiscoveredContent(k)) THEN 0
                         ELSE Len(DiscoveredContent(k).data)
        /\ Len(all_questions) =
               SumSeq([k \in DOMAIN extracted_categories.keys |->
                          Len(extracted_categories.val[extracted_categories.keys[k]])])
               + SumSeq([k \in DOMAIN cleaned_files.keys |->
                          IF FileFails(DiscoveredContent(k)) THEN 0
                          ELSE Len(DiscoveredContent(k).data)])

\* C6 witness: two categories were discovered, the first one's file failed and
\* the second one's records were appended.
C6_Witness ==
    /\ Compiled /\ pc = "done"
    /\ Len(cleaned_files.keys) = 2
    /\ FileFails(DiscoveredContent(1))
    /\ ~FileFails(DiscoveredContent(2))
    /\ category_stats.val[cleaned_files.keys[1]] = 0
    /\ category_stats.val[cleaned_files.keys[2]] > 0
    /\ Len(all_questions) >= category_stats.val[cleaned_files.keys[2]]

\* C7: a direct extraction with an empty request list on a loadable database
\* returns the empty mapping and leaves the directory as it was.
C7_EmptyRequestNoFiles ==
    [][(/\ caller = "extract_categories_from_main_db"
        /\ pc = "start" /\ pc' = "done"
        /\ categories_to_extract = << >>
        /\ main_db.ok)
       => (extracted_categories' = EmptyDict /\ dir' = dir)]_vars

\* C7 witness: such a call has returned, on a database with records.
C7_Witness ==
    /\ caller = "extract_categories_from_main_db" /\ pc = "done"
    /\ categories_to_extract = << >>
    /\ IsCollection(main_db) /\ main_db.data # << >>
    /\ extracted_categories = EmptyDict
    /\ DOMAIN dir = {}

\* name = pre + anything + suf
MatchesPattern(n, pre, suf) ==
    \E mid \in 0..Len(n) :
        /\ Len(n) = Len(pre) + mid + Len(suf)
        /\ \A k \in DOMAIN pre : n[k] = pre[k]
        /\ \A k \in DOMAIN suf : n[Len(pre) + mid + k] = suf[k]

\* C8: find_cleaned_files maps every known category with a matching file to
\* one of its matching files and omits the others; a category without a
\* matching file lets the compile finish, has no count recorded, is reported
\* with count 0, and the collection holds only the counted records.
C8_DiscoveryAndNoMatch ==
    (caller = "compile_all_categories" /\ pc \notin {"start", "find"}
        /\ output_file.ret # "None") =>
        \A k \in DOMAIN file_patterns :
            LET c == file_patterns[k].category
                M == {n \in DOMAIN dir :
                         MatchesPattern(n, file_patterns[k].pre, file_patterns[k].suf)}
            IN  /\ M # {} => (DictHas(cleaned_files, c) /\ cleaned_files.val[c] \in M)
                /\ M = {} => ~DictHas(cleaned_files, c)
                /\ (M = {} /\ pc = "done") =>
                       /\ output_file.ret = "path"
                       /\ ~DictHas(category_stats, c)
                       /\ \E j \in DOMAIN breakdown :
                             breakdown[j].category = c /\ breakdown[j].count = 0
                       /\ Len(all_questions) = StatsSum(category_stats)

\* C8 witness: a finished compile in a directory with a file matching the rc
\* pattern, a look-alike name matching no pattern, and no verbal_reasoning file.
C8_Witness ==
    /\ Compiled /\ pc = "done" /\ output_file.ret = "path"
    /\ DictHas(cleaned_files, s_rc)
    /\ s_CLEANED_RC_dot_json \in DOMAIN dir
    /\ ~DictHas(cleaned_files, s_verbal_reasoning)
    /\ Len(all_questions) > 0


(* -------------------- properties of the cleaning passes ------------------ *)
Denylist == {s_rc, s_spatial_reasoning, s_abstract_reasoning}

\* C5: the records a general pass selects from a collection of records are,
\* for the keyword "all" (in any case), exactly those whose category is up to case none of rc,
\* spatial_reasoning, abstract_reasoning, and for any other target exactly those
\* whose category equals the target up to case; in both cases in the order of
\* the database.
C5_FilterExact ==
    (IsGeneral /\ pc # "start" /\ IsCollection(main_db)) =>
        LET data == main_db.data
            HasCat(n, x) == "category" \in DOMAIN data[n]
                                /\ SameIgnoringCase(data[n]["category"], x)
            M == IF SameIgnoringCase(target_category, s_all)
                 THEN {n \in DOMAIN data : \A x \in Denylist : ~HasCat(n, x)}
                 ELSE {n \in DOMAIN data : HasCat(n, target_category)}
        IN  IsSelection(questions, data, M)

\* C5 witness: the example of the specification: from an RC record and a
\* verbal_reasoning record the target "all" selects the second one only.
C5_Witness ==
    /\ IsGeneral /\ pc = "loop" /\ target_category = s_all
    /\ main_db.ok /\ main_db.data = <<q1, q2>>
    /\ questions = <<q2>>

\* the latest external call ended in a reconstructed record
Reconstructed == /\ (IsGeneral \/ IsRC) /\ pc = "sleep"
                 /\ result # PyNone /\ "cleaned_question" \in DOMAIN result

\* C2: the record reconstructed from a reply has the _id and the category of
\* the source record (None and the cleaner's default category when the source
\* has none), whatever the reply carries for them, and it is the record put
\* in the cleaned output.
C2_IdentityPreserved ==
    Reconstructed =>
        LET src == questions[i]
            rec == result["cleaned_question"]
        IN  /\ rec["_id"] = (IF "_id" \in DOMAIN src THEN src["_id"] ELSE PyNone)
            /\ rec["category"] = (IF "category" \in DOMAIN src THEN src["category"]
                                  ELSE IF IsGeneral THEN s_empty ELSE s_rc)
            /\ cleaned_questions # << >>
            /\ cleaned_questions[Len(cleaned_questions)] = rec

\* C2 witness: a record was reconstructed from a reply that carries another
\* _id and another category.
C2_Witness ==
    /\ Reconstructed
    /\ response = Content(<<"doc_override">>)
    /\ "_id" \in DOMAIN questions[i] /\ "category" \in DOMAIN questions[i]
    /\ cq_override["_id"] # questions[i]["_id"]
    /\ cq_override["category"] # questions[i]["category"]

\* the replies of a failed external call: an exception, a text that is no
\* JSON, a JSON document without the expected structure
FailingReplies ==
    {Raised, Content(<<"o", "o", "p", "s">>), Content(<<"doc_no_cq">>),
     Content(<<"doc_nondict">>), Content(<<"doc_cq_bad">>)}

\* the identifier the failed-list uses for the k-th selected record
FailedListId(k) ==
    IF "_id" \in DOMAIN questions[k] THEN questions[k]["_id"]["$oid"]
    ELSE s_question_ \o DecimalDigits(k)

\* C3: a record whose external call fails is put in the failed-list and not in
\* the cleaned output, and the pass goes on: after every record the next one is
\* handled, the results are saved only after the last one, and neither list
\* ever loses an entry.
C3_FailureIsolated ==
    [][/\ (pc = "loop" /\ pc' = "sleep" /\ response' \in FailingReplies) =>
              /\ failed_questions' = Append(failed_questions, FailedListId(i + 1))
              /\ cleaned_questions' = cleaned_questions
              /\ i' = i + 1
       /\ (pc = "sleep" /\ i < Len(questions)) => (pc' = "loop" /\ i' = i)
       /\ (pc = "loop") => (i < Len(questions) /\ pc' = "sleep" /\ questions' = questions)
       /\ (pc' = "save") => i' = Len(questions')
       /\ Len(failed_questions') >= Len(failed_questions)
       /\ SubSeq(failed_questions', 1, Len(failed_questions)) = failed_questions
       /\ Len(cleaned_questions') >= Len(cleaned_questions)
       /\ SubSeq(cleaned_questions', 1, Len(cleaned_questions)) = cleaned_questions
      ]_vars

\* C3 witness: a finished pass over two records of which the first failed and
\* the second was cleaned.
C3_Witness ==
    /\ (IsGeneral \/ IsRC) /\ pc = "done" /\ pass_result.status = "ok"
    /\ Len(questions) = 2 /\ i = 2
    /\ questions[1] # questions[2]
    /\ failed_questions = <<FailedListId(1)>>
    /\ Len(cleaned_questions) = 1
    /\ cleaned_questions[1]["_id"] = Get(questions[2], "_id", PyNone)
    /\ cleaned_questions[1]["_id"] # Get(questions[1], "_id", PyNone)

\* the replies that are an expected JSON document between code-fence markers,
\* with and without the json language tag, and the document each one wraps
FencedReplies == {Content(FencedJson("doc_good")), Content(FencedPlain("doc_good"))}
Unfenced(reply) == Content(<<CHOOSE d \in DOMAIN JsonDocs : d \in Range(reply.content)>>)

\* C9 as claimed: a reply wrapped in code-fence markers, with or without the
\* json tag, has the outcome of the same reply without the markers: the same
\* record is reconstructed and it is counted as cleaned.
C9_FencedSameOutcome ==
    ((IsGeneral \/ IsRC) /\ pc = "sleep" /\ response \in FencedReplies) =>
        LET bare == clean_and_verify_question(IsGeneral, questions[i], Unfenced(response), now)
        IN  /\ result = bare.result
            /\ cleaned_questions # << >>
            /\ cleaned_questions[Len(cleaned_questions)] = bare.result["cleaned_question"]

\* the cleaned_question of the document a reply carries
ReplyCleanedQuestion(reply) ==
    LET doc == CHOOSE d \in DOMAIN JsonDocs : d \in Range(reply.content)
    IN  JsonDocs[doc]["cleaned_question"]

\* the fields both cleaners keep from the source record
KeepsSourceFields(src, rec) ==
    /\ rec["difficulty"] = (IF "difficulty" \in DOMAIN src THEN src["difficulty"] ELSE "medium")
    /\ rec["user_response"] =
           (IF "user_response" \in DOMAIN src THEN src["user_response"] ELSE "")
    /\ "passage_id" \in DOMAIN src =>
           ("passage_id" \in DOMAIN rec /\ rec["passage_id"] = src["passage_id"])

\* C10 as claimed: difficulty, user_response, and passage_id and passage when
\* the source has them, are the source's in the reconstructed record.
C10_AsClaimed ==
    Reconstructed =>
        LET src == questions[i]
            rec == result["cleaned_question"]
        IN  /\ KeepsSourceFields(src, rec)
            /\ "passage" \in DOMAIN src =>
                   ("passage" \in DOMAIN rec /\ rec["passage"] = src["passage"])

\* C10 amended: difficulty, user_response, and passage_id when the source has
\* it, are the source's; passage, when the source has it, is the source's in
\* the general cleaner, and in the RC cleaner it is the reply's passage (the
\* empty text when the reply has none).
C10_SourceFieldsKept ==
    Reconstructed =>
        LET src == questions[i]
            rec == result["cleaned_question"]
            cq == ReplyCleanedQuestion(response)
        IN  /\ KeepsSourceFields(src, rec)
            /\ (IsGeneral /\ "passage" \in DOMAIN src) =>
                   ("passage" \in DOMAIN rec /\ rec["passage"] = src["passage"])
            /\ IsRC => rec["passage"] = (IF "passage" \in DOMAIN cq THEN cq["passage"] ELSE "")

\* C10 witness: the RC cleaner reconstructed a record whose source has a
\* passage, a passage_id, a difficulty and a user_response, from a reply that
\* carries other values for all four.
C10_Witness ==
    /\ Reconstructed /\ IsRC
    /\ response = Content(<<"doc_override">>)
    /\ {"passage", "passage_id", "difficulty", "user_response"} \subseteq DOMAIN questions[i]
    /\ result["cleaned_question"]["passage"] = "PX"
    /\ result["cleaned_question"]["passage_id"] = questions[i]["passage_id"]

\* the latest handled record ended in the failed-list (general 207-210, rc 181-184)
LatestFailed == ~(Truthy(result) /\ Truthy(Get(result, "cleaned_question", PyNone)))

\* C11 as claimed: after every record handed to the external call the
\* processing log holds exactly one event per handled record; the latest event
\* carries the record's question_id and a timestamp with either changes_made
\* or error, and it is an error event when the record went to the failed-list.
C11_OneEventPerRecord ==
    ((IsGeneral \/ IsRC) /\ pc = "sleep") =>
        /\ Len(processing_log) = i
        /\ LET e == processing_log[Len(processing_log)]
           IN  /\ {"question_id", "timestamp"} \subseteq DOMAIN e
               /\ e["question_id"] = QuestionId(questions[i], s_unknown)
               /\ ("changes_made" \in DOMAIN e) # ("error" \in DOMAIN e)
               /\ LatestFailed => "error" \in DOMAIN e

\* C12 as claimed: in every pipeline the clock advances between any two
\* consecutive calls of the external service: a delay follows every call,
\* failed or not.
C12_DelayBetweenCalls ==
    \A k \in 1..(Len(call_log) - 1) : call_log[k + 1] > call_log[k]

\* the same for the two cleaning pipelines only
DelayBetweenCleanerCalls == (IsGeneral \/ IsRC) => C12_DelayBetweenCalls

\* a cleaning pass runs
Cleaning == IsGeneral \/ IsRC

\* C13: in a cleaning pass no file exists while the loop over the selected
\* records has not finished; the cleaned output is written after the last
\* record, then the log, each one as a new file that is not touched again, so
\* that a finished pass leaves exactly these two files holding the cleaned
\* output and the processing log.
C13_FilesWrittenOnceAtEnd ==
    /\ [](Cleaning =>
            /\ pc \in {"start", "loop", "sleep", "save"} => dir = << >>
            /\ pc = "save_log" =>
                  /\ i = Len(questions)
                  /\ DOMAIN dir = {CleanedOutputName(IsGeneral, target_category, now)}
            /\ (pc = "done" /\ pass_result.status = "ok") =>
                  /\ i = Len(questions)
                  /\ pass_result.output_file # pass_result.log_file
                  /\ DOMAIN dir = {pass_result.output_file, pass_result.log_file}
                  /\ dir[pass_result.output_file] = JsonFile(cleaned_questions)
                  /\ dir[pass_result.log_file] = JsonFile(processing_log)
            /\ (pc = "done" /\ pass_result.status # "ok") => dir = << >>)
    /\ [][(Cleaning /\ dir' # dir) =>
            /\ Cardinality(DOMAIN dir' \ DOMAIN dir) = 1
            /\ \A n \in DOMAIN dir : dir'[n] = dir[n]
            /\ i = Len(questions)]_vars

\* C13 witness: a finished pass over two records left its two files, the
\* cleaned output holding one record.
C13_Witness ==
    /\ Cleaning /\ pc = "done" /\ pass_result.status = "ok"
    /\ Len(questions) = 2 /\ Len(call_log) = 2
    /\ Cardinality(DOMAIN dir) = 2
    /\ Len(dir[pass_result.output_file].data) = 1
    /\ dir[pass_result.log_file].data # << >>

\* files a run of compile2.py writes
WrittenByCompile(n) ==
    startswith(n, s_ALL_CATEGORIES_COMPILED_) \/ startswith(n, s_EXTRACTED_)

\* C14: when the database file cannot be loaded, a cleaning pass never calls
\* the external service, never writes a file and ends with the error result,
\* and compile_all_categories writes no extracted or compiled file and
\* returns None.
C14_LoadFailureAborts ==
    ~main_db.ok =>
        /\ Cleaning =>
              /\ call_log = << >>
              /\ dir = << >>
              /\ pc \in {"main", "start", "done"}
              /\ (pc = "done" /\ target_category # s_empty) =>
                     pass_result = [status |-> "error"]
        /\ caller = "compile_all_categories" =>
              /\ \A n \in DOMAIN dir : ~WrittenByCompile(n)
              /\ pc \in {"start", "done", "crashed"}
              /\ pc # "start" => output_file = ReturnNone
              /\ all_questions = << >>

\* C14 witness: a general pass for all categories ended on a database it could
\* not load.
C14_Witness ==
    /\ IsGeneral /\ ~main_db.ok /\ target_category = s_all
    /\ pc = "done" /\ pass_result = [status |-> "error"]
    /\ call_log = << >> /\ dir = << >>

\* the replies that carry a question and a category outside CATEGORIES
UnknownCategoryReplies == {Content(<<"doc_hr">>), Content(<<"doc_Ethics">>)}

\* C15: every record of results, and of the written output, has a category of
\* CATEGORIES; a reply whose category is outside the set appends a record with
\* the reply's question and the category comprehensive.
C15_CategoryInFixedSet ==
    /\ [](IsAssess =>
            /\ \A k \in DOMAIN results : results[k].category \in Range(CATEGORIES)
            /\ pc = "done" => dir[s_categorized_questions_json] = JsonFile(results))
    /\ [][(IsAssess /\ idx' = idx + 1 /\ response' \in UnknownCategoryReplies) =>
            /\ Len(results') = Len(results) + 1
            /\ SubSeq(results', 1, Len(results)) = results
            /\ results'[Len(results')].category = "comprehensive"
            /\ results'[Len(results')].question =
                   json_loads(response'.content).value["question"]]_vars

\* C15 witness: the written output holds a record classified by the reply
\* and a record whose unknown category hr was replaced.
C15_Witness ==
    /\ IsAssess /\ pc = "done"
    /\ LET out == dir[s_categorized_questions_json].data
       IN  /\ \E k \in DOMAIN out : out[k].question = "Q hr" /\ out[k].category = "comprehensive"
           /\ \E k \in DOMAIN out : out[k].category = "ethics"

\* C16: run_general_cleaner.py started with no argument, with more than one,
\* or with one that lower-cased is neither all nor an available category (rc,
\* spatial_reasoning and abstract_reasoning are none) prints its usage and
\* returns: the database is never loaded, the external service never called
\* and no file written.
C16_BadCommandLineOnlyUsage ==
    (caller = "run_general_cleaner"
        /\ \/ Len(argv) # 2
           \/ lower(argv[2]) \notin (available_categories \cup {s_all})
           \/ lower(argv[2]) \in Denylist) =>
        /\ pc \in {"main", "done"}
        /\ pc = "done" => usage
        /\ questions = << >> /\ call_log = << >> /\ dir = << >>
        /\ pass_result = NoPassResult

\* the names of the denylist are no available categories
DenylistNotAvailable == Denylist \cap available_categories = {}

\* C16 witness: the script returned with its usage for the single argument RC.
C16_Witness ==
    /\ caller = "run_general_cleaner" /\ pc = "done" /\ usage
    /\ Len(argv) = 2 /\ argv[2] = s_RC
    /\ DenylistNotAvailable
    /\ questions = << >>

RECURSIVE ConcatAll(_)
\* the concatenation of a sequence of sequences
ConcatAll(ss) == IF ss = << >> THEN << >> ELSE Head(ss) \o ConcatAll(Tail(ss))

\* the records the k-th discovered file contributes: none when it fails,
\* else its records in their order, each one lacking a category given the
\* category c the file was discovered under
Contribution(k) ==
    LET c == cleaned_files.keys[k]
        content == DiscoveredContent(k)
    IN  IF FileFails(content) THEN << >>
        ELSE [n \in DOMAIN content.data |->
                 IF "category" \in DOMAIN content.data[n] THEN content.data[n]
                 ELSE content.data[n] @@ ("category" :> c)]

\* the positions of the discovered categories in the order of the patterns
PatternIndex(c) == CHOOSE k \in DOMAIN file_patterns : file_patterns[k].category = c

\* C17: the compiled collection, and the file written from it, is the
\* extracted categories' records in the order of the extraction request,
\* followed by the discovered files' records in the order of discovery (the
\* order of the patterns), every source in its own order.
C17_ConcatenationInOrder ==
    Compiled =>
        /\ extracted_categories.keys = categories_to_extract
        /\ \A j, k \in DOMAIN cleaned_files.keys :
              j < k => PatternIndex(cleaned_files.keys[j]) < PatternIndex(cleaned_files.keys[k])
        /\ all_questions =
               ConcatAll([k \in DOMAIN extracted_categories.keys |->
                             extracted_categories.val[extracted_categories.keys[k]]])
               \o ConcatAll([k \in DOMAIN cleaned_files.keys |-> Contribution(k)])
        /\ dir[CompiledFileName(now)] = JsonFile(all_questions)
        /\ pc = "done" => output_file = ReturnPath(CompiledFileName(now))

\* C17 witness: a finished compile whose collection starts with an extracted
\* record and goes on with the records of two discovered files.
C17_Witness ==
    /\ Compiled /\ pc = "done"
    /\ Len(cleaned_files.keys) = 2
    /\ Contribution(1) # << >> /\ Contribution(2) # << >>
    /\ extracted_categories.val[s_spatial_reasoning] # << >>
    /\ all_questions[1] = q3
    /\ Len(all_questions) = Len(extracted_categories.val[s_spatial_reasoning])
                             + Len(Contribution(1)) + Len(Contribution(2))

\* C18: when the merge takes in a discovered file, each of its records is
\* appended with every field it had; a record without category gets the
\* category the file was discovered under, a record with one keeps it.
C18_TaggingOnlyWhenMissing ==
    [][(caller = "compile_all_categories" /\ pc = "add_cleaned" /\ cf_idx' = cf_idx + 1
          /\ ~FileFails(DiscoveredContent(cf_idx))) =>
            LET c == cleaned_files.keys[cf_idx]
                data == DiscoveredContent(cf_idx).data
            IN  /\ Len(all_questions') = Len(all_questions) + Len(data)
                /\ \A n \in DOMAIN data :
                      LET src == data[n]
                          rec == all_questions'[Len(all_questions) + n]
                      IN  /\ DOMAIN rec = DOMAIN src \cup {"category"}
                          /\ \A f \in DOMAIN src : rec[f] = src[f]
                          /\ "category" \notin DOMAIN src => rec["category"] = c]_vars

\* C18 witness: the compiled collection holds, from the file discovered under
\* rc, a record that got the category rc and a record that kept its category
\* verbal_reasoning.
C18_Witness ==
    /\ Compiled /\ pc = "done"
    /\ DictHas(cleaned_files, s_rc)
    /\ \E k \in DOMAIN cleaned_files.keys :
          /\ cleaned_files.keys[k] = s_rc
          /\ DiscoveredContent(k) = JsonFile(<<c_nocat, c_cat, c_RC>>)
    /\ all_questions[Len(all_questions) - 2] = c_nocat @@ ("category" :> s_rc)
    /\ all_questions[Len(all_questions) - 1] = c_cat
    /\ all_questions[Len(all_questions)] = c_RC

\* C19 as claimed: after rc_removed.py ran on a compiled collection, its
\* output holds exactly the records whose category is not rc up to case, in
\* their order, and the number it reports is the difference of the lengths.
C19_NoRcIgnoringCase ==
    (caller = "compile_all_categories" /\ pc = "removed") =>
        LET data == dir[s_ALL_CATEGORIES_COMPILED_20250715_205425_json].data
            M == {n \in DOMAIN data : ~SameIgnoringCase(data[n]["category"], s_rc)}
        IN  /\ IsSelection(filtered, data, M)
            /\ dir[s_ALL_CATEGORIES_NO_RC_json] = JsonFile(filtered)
            /\ removed = Len(data) - Len(filtered)

\* what the script does remove: the records whose category is written rc
RemovesLowerCaseRcOnly ==
    (caller = "compile_all_categories" /\ pc = "removed") =>
        LET data == dir[s_ALL_CATEGORIES_COMPILED_20250715_205425_json].data
        IN  /\ IsSelection(filtered, data, {n \in DOMAIN data : data[n]["category"] # s_rc})
            /\ removed = Len(data) - Len(filtered)

\* C20: every handled record goes, as the last entry, either to the cleaned
\* output (the record reconstructed for it) or to the failed-list (its
\* identifier), never to both and never to none, and nothing else changes
\* the two lists; so the lists together have one entry per handled record,
\* and the result of a finished pass reports successfully_cleaned + failed =
\* total_processed and the written output is the cleaned list.
C20_PartitionOfSelected ==
    /\ [](Cleaning =>
            /\ Len(cleaned_questions) + Len(failed_questions) = i
            /\ (pc = "done" /\ pass_result.status = "ok") =>
                  /\ i = Len(questions)
                  /\ pass_result.total_processed = Len(questions)
                  /\ pass_result.successfully_cleaned = Len(cleaned_questions)
                  /\ pass_result.failed = Len(failed_questions)
                  /\ pass_result.successfully_cleaned + pass_result.failed
                         = pass_result.total_processed
                  /\ pass_result.failed_questions = failed_questions
                  /\ dir[pass_result.output_file] = JsonFile(cleaned_questions))
    /\ [][Cleaning =>
            IF i' = i + 1
            THEN \/ /\ failed_questions' = failed_questions
                    /\ Len(cleaned_questions') = Len(cleaned_questions) + 1
                    /\ SubSeq(cleaned_questions', 1, Len(cleaned_questions)) = cleaned_questions
                    /\ cleaned_questions'[Len(cleaned_questions')]["_id"]
                           = Get(questions[i + 1], "_id", PyNone)
                 \/ /\ cleaned_questions' = cleaned_questions
                    /\ failed_questions' = Append(failed_questions, FailedListId(i + 1))
            ELSE /\ i' = i
                 /\ cleaned_questions' = cleaned_questions
                 /\ failed_questions' = failed_questions]_vars

\* C20 witness: a finished pass over two different records cleaned both, and
\* the output lists them in the order of their selection.
C20_Witness ==
    /\ Cleaning /\ pc = "done" /\ pass_result.status = "ok"
    /\ Len(questions) = 2 /\ questions[1] # questions[2]
    /\ pass_result.successfully_cleaned = 2 /\ pass_result.failed = 0
    /\ "_id" \in DOMAIN questions[1] /\ "_id" \in DOMAIN questions[2]
    /\ dir[pass_result.output_file].data[1]["_id"] = questions[1]["_id"]
    /\ dir[pass_result.output_file].data[2]["_id"] = questions[2]["_id"]

\* C21: a compile that has printed its report counted, over the fixed order
\* of the categories, as many records as the compiled collection holds, and
\* did not take the mismatch branch; this with discovered files that failed
\* to load as well, and every category that has a count is one of the order.
C21_ReportTotalMatches ==
    (caller = "compile_all_categories" /\ pc \in {"done", "removed", "crashed"}
        /\ output_file.ret = "path") =>
        /\ total_questions = Len(all_questions)
        /\ ~mismatch
        /\ SumSeq([k \in DOMAIN breakdown |-> breakdown[k].count]) = Len(all_questions)
        /\ \A k \in DOMAIN category_stats.keys :
              \E j \in DOMAIN breakdown : breakdown[j].category = category_stats.keys[k]

\* C21 witness: the report of a compile with records from the extraction
\* and from a discovered file, and with a discovered file that failed.
C21_Witness ==
    /\ caller = "compile_all_categories" /\ pc = "done" /\ output_file.ret = "path"
    /\ \E k \in DOMAIN cleaned_files.keys : FileFails(DiscoveredContent(k))
    /\ \E k \in DOMAIN cleaned_files.keys : ~FileFails(DiscoveredContent(k))
    /\ extracted_categories.val[s_spatial_reasoning] # << >>
    /\ total_questions > Len(extracted_categories.val[s_spatial_reasoning])
    /\ ~mismatch

\* C22: every record compile_all_categories collects and writes has a
\* category field, so rc_removed.py never stops on a record without the
\* field: when the file it opens is the compiled one it runs to its end, and
\* the one exception that ends it is the file of that name not being there.
C22_CompiledRecordsHaveCategory ==
    caller = "compile_all_categories" =>
        /\ \A n \in DOMAIN all_questions : "category" \in DOMAIN all_questions[n]
        /\ \A f \in DOMAIN dir :
              startswith(f, s_ALL_CATEGORIES_COMPILED_) =>
                  \A n \in DOMAIN dir[f].data : "category" \in DOMAIN dir[f].data[n]
        /\ error \in {"none", "FileNotFoundError"}
        /\ (pc = "crashed" /\ output_file.ret = "path") =>
               output_file.path # s_ALL_CATEGORIES_COMPILED_20250715_205425_json

\* C22 witness: rc_removed.py ran to its end on a compiled collection that
\* holds an extracted record and a record that had no category in its file.
C22_Witness ==
    /\ caller = "compile_all_categories" /\ pc = "removed" /\ error = "none"
    /\ output_file = ReturnPath(s_ALL_CATEGORIES_COMPILED_20250715_205425_json)
    /\ extracted_categories.val[s_spatial_reasoning] # << >>
    /\ \E k \in DOMAIN cleaned_files.keys :
          /\ ~FileFails(DiscoveredContent(k))
          /\ \E n \in DOMAIN DiscoveredContent(k).data :
                "category" \notin DOMAIN DiscoveredContent(k).data[n]
    /\ \E n \in DOMAIN all_questions : all_questions[n] = c_nocat @@ ("category" :> s_rc)
    /\ Len(filtered) + removed = Len(all_questions)

\* the log files among the files the passes wrote
IsLogFile(f) == ~startswith(f, s_CLEANED_)

\* a is an initial part of b
IsPrefix(a, b) == Len(a) <= Len(b) /\ SubSeq(b, 1, Len(a)) = a

\* C23: over the passes called on one cleaner instance the processing log
\* only grows at its end; the log file a finished pass wrote holds the whole
\* log, and the log file of every earlier pass is an initial part of it.
C23_LogAppendOnlyAcrossPasses ==
    /\ [][IsPrefix(processing_log, processing_log')]_vars
    /\ [](Cleaning =>
            /\ \A f \in DOMAIN dir : IsLogFile(f) => IsPrefix(dir[f].data, processing_log)
            /\ (pc = "done" /\ pass_result.status = "ok") =>
                  dir[pass_result.log_file] = JsonFile(processing_log))

\* C23 witness: the second pass on an instance has finished; its log file
\* holds the entries of the first pass's log file followed by its own.
C23_Witness ==
    /\ Cleaning /\ passes = 2 /\ pc = "done" /\ pass_result.status = "ok"
    /\ \E f \in DOMAIN dir :
          /\ IsLogFile(f) /\ f # pass_result.log_file
          /\ dir[f].data # << >>
          /\ Len(dir[pass_result.log_file].data) > Len(dir[f].data)
          /\ IsPrefix(dir[f].data, dir[pass_result.log_file].data)

====
